---- MODULE Spec2Model ----
(***************************************************************************)
(* Request orchestration of the lyrics translator (src/Translator.js):     *)
(* callTranslationAPI -> callPerplexity / callGemini, the persistent       *)
(* translation cache, the in-flight request registry and API-key rotation. *)
(* Every caller is one asynchronous invocation; a step of the model is one *)
(* synchronous run of JavaScript between two suspension points.            *)
(***************************************************************************)
EXTENDS Integers, Sequences, FiniteSets, TLC

\* ------------------------------------------------------------------ bounds
MaxKeys == 2
ConcKeys == 2
MaxLines == 3
ModelCandidates == 2
MaxSyllables == 3
MaxKaraokeLines == 2

Callers == {"c1", "c2"}
Providers == {"perplexity", "gemini"}
Tracks == {<<"a">>, <<"a", "b">>}
Langs == {"ko"}
NoTrack == <<>>

\* ------------------------------------------------------- strings as tokens
\* A message is a sequence of tokens; every substring the code searches for
\* is one token, so String.prototype.includes is membership of a token.
Includes(message, token) == \E n \in DOMAIN message : message[n] = token

StartsWith(s, prefix) ==
    /\ Len(prefix) <= Len(s)
    /\ SubSeq(s, 1, Len(prefix)) = prefix

Trim(s) == IF s = " " THEN "" ELSE s

Undefined == << <<"undefined">> >>
OrElse(a, b) == IF a # Undefined THEN a ELSE b

\* --------------------------------------------------------------- key pools
KeyName(n) == "k" \o ToString(n)
KeyPool(n) == [j \in 1..n |-> KeyName(j)]

\* What StorageManager.getItem can return for an API-key item: null, a bare
\* string (possibly blank), a JSON array of entries (possibly blank ones), or
\* a string that starts with '[' and is not valid JSON.
RawNull == [form |-> "null", items |-> <<>>]
RawBlank == [form |-> "text", items |-> <<" ">>]
RawBare == [form |-> "text", items |-> <<"k1">>]
RawBadJson == [form |-> "badjson", items |-> <<"[k1">>]
RawArray(items) == [form |-> "json", items |-> items]
RawValues ==
    {RawNull, RawBlank, RawBare, RawBadJson, RawArray(<<"", "k1", " ">>)}
        \cup {RawArray(KeyPool(n)) : n \in 0..MaxKeys}

\* The items _getApiKeys reads; only their blankness is looked at.
FlagRawValues == {RawNull, RawBlank, RawBare, RawArray(<<>>)}

IsUsableKey(k) == k # "" /\ Trim(k) # ""

parseApiKeys(raw) ==
    LET apiKeys ==
            IF raw.form = "null" THEN <<>>
            ELSE IF raw.form = "text" THEN <<Trim(raw.items[1])>>
            ELSE raw.items
    IN  SelectSeq(apiKeys, IsUsableKey)

\* `perplexityKey && perplexityKey.trim().length > 0 ? perplexityKey : null`
RawText(raw) ==
    IF raw.form = "null" THEN ""
    ELSE IF raw.form = "text" THEN raw.items[1]
    ELSE "[...]"

cachedKeyValue(raw) ==
    IF raw.form # "null" /\ Trim(RawText(raw)) # "" THEN raw ELSE RawNull

\* ------------------------------------------------------------ request keys
KindName(wantSmartPhonetic) ==
    IF wantSmartPhonetic THEN "phonetic" ELSE "translation"

getRequestKey(trackId, wantSmartPhonetic, lang) ==
    trackId \o <<":", KindName(wantSmartPhonetic), ":", lang>>

\* The key LyricsCache.getTranslation / setTranslation is called with.
CacheKey(trackId, lang, wantSmartPhonetic) ==
    <<trackId, lang, wantSmartPhonetic>>

\* ------------------------------------------------------------------ errors
Err(name, message) == [ok |-> FALSE, name |-> name, message |-> message, value |-> Undefined]
Ok(value) == [ok |-> TRUE, name |-> "", message |-> <<>>, value |-> value]

MsgRateLimit == <<"429", "Rate Limit", "Exceeded">>
MsgForbidden == <<"403", "Forbidden", "-", "Invalid API Key">>
MsgMissingApiKey == <<"translator.missingApiKey">>
MsgNoText == <<"No text provided for translation">>
MsgNoTrack == <<"No track ID available">>
MsgTimeout == <<"translator.requestTimeout">>
MsgInvalidFormat == <<"Invalid response format from Perplexity API">>

handleAPIError(status) ==
    IF status = 400 THEN <<"translator.invalidRequestFormat">>
    ELSE IF status = 401 THEN <<"translator.invalidApiKey">>
    ELSE IF status = 403 THEN <<"translator.accessForbidden">>
    ELSE IF status = 429 THEN <<"translator.rateLimitExceeded">>
    ELSE IF status \in {500, 502, 503} THEN <<"translator.serviceUnavailable">>
    ELSE <<"translator.requestFailed", "(", ToString(status), ")">>

isRateLimit(message) == Includes(message, "429") \/ Includes(message, "Rate Limit")

isForbidden(message) ==
    \/ Includes(message, "403")
    \/ Includes(message, "Forbidden")
    \/ Includes(message, "API key not valid")

\* The classification of runWithRotation's catch block.
shouldRotate(message) == isRateLimit(message) \/ isForbidden(message)

\* A catch block that never falls back.
shouldFallbackNever(message) == FALSE

\* The classification of callTranslationAPI's catch block.
shouldFallback(message) ==
    \/ Includes(message, "429") \/ Includes(message, "Rate Limit")
    \/ Includes(message, "403") \/ Includes(message, "Forbidden")
    \/ Includes(message, "Invalid API Key")

\* The last key's error thrown as it is, without the aggregate around it.
allKeysFailedBare(lastError) == lastError

\* `throw new Error(`${I18n.t("translator.failedPrefix")}: ${lastError.message}`)`
allKeysFailed(lastError) ==
    Err("Error", <<"translator.failedPrefix", ":">> \o lastError.message)

\* Gemini's error thrown as it is, Perplexity's reason dropped.
bothProvidersFailedGeminiOnly(error, geminiError) == geminiError

\* `throw new Error(`${failedPrefix}: Perplexity (${error.message}), Gemini (${geminiError.message})`)`
bothProvidersFailed(error, geminiError) ==
    Err("Error", <<"translator.failedPrefix", ":", "Perplexity", "(">> \o error.message
                    \o <<")", ",", "Gemini", "(">> \o geminiError.message \o <<")">>)

\* ------------------------------------------------- provider response text
\* A line of text is a sequence of characters, abstracted to their class:
\* "L" a Latin letter, "K" a kana, "H" a Han ideograph, " " a blank,
\* "[1]" a bracketed numeric citation, "P" the preamble "Translation:", "-" a
\* bullet; and of phrases, named by their text: "instead", "limitations",
\* "more importantly", "perplexity", "access to", "i appreciate", "It is",
\* "To complete", and two stretches of a hundred characters, "lyric100" of
\* words in no Latin letters and "english100" of English words, three of
\* them pronouns.
IsBlankLine(line) == \A n \in DOMAIN line : line[n] = " "

RECURSIVE trimStart(_)
trimStart(line) ==
    IF line # <<>> /\ Head(line) = " " THEN trimStart(Tail(line)) ELSE line

RECURSIVE trimEnd(_)
trimEnd(line) ==
    IF line # <<>> /\ line[Len(line)] = " "
    THEN trimEnd(SubSeq(line, 1, Len(line) - 1)) ELSE line

trimLine(line) == trimEnd(trimStart(line))

NotCitation(ch) == ch # "[1]"
stripCitations(line) == SelectSeq(line, NotCitation)

\* String.prototype.trim on the whole text: blank lines at either end go,
\* and so do the blanks that start the first and end the last line.
RECURSIVE dropBlankHead(_)
dropBlankHead(lines) ==
    IF lines # <<>> /\ IsBlankLine(Head(lines)) THEN dropBlankHead(Tail(lines)) ELSE lines

RECURSIVE dropBlankTail(_)
dropBlankTail(lines) ==
    IF lines # <<>> /\ IsBlankLine(lines[Len(lines)])
    THEN dropBlankTail(SubSeq(lines, 1, Len(lines) - 1)) ELSE lines

trimText(lines) ==
    LET kept == dropBlankTail(dropBlankHead(lines))
    IN  IF kept = <<>> THEN << <<>> >>
        ELSE [n \in DOMAIN kept |->
                LET a == IF n = 1 THEN trimStart(kept[n]) ELSE kept[n]
                IN  IF n = Len(kept) THEN trimEnd(a) ELSE a]

\* /^Translation.*?:?\s*/i at the start of the text: the preamble and all the
\* white space that follows it, line breaks included.
stripPreamble(lines) ==
    IF lines # <<>> /\ lines[1] # <<>> /\ lines[1][1] = "P"
    THEN LET first == trimStart(Tail(lines[1]))
             rest == Tail(lines)
         IN  IF first # <<>> THEN <<first>> \o rest
             ELSE IF dropBlankHead(rest) = <<>> THEN << <<>> >>
             ELSE <<trimStart(Head(dropBlankHead(rest)))>> \o Tail(dropBlankHead(rest))
    ELSE lines

CountOf(line, classes) == Cardinality({n \in DOMAIN line : line[n] \in classes})

\* Number of UTF-16 units of a character or phrase.
TokenLength(tok) ==
    CASE tok = "[1]" -> 3
      [] tok = "P" -> 12
      [] tok = "instead" -> 7
      [] tok = "limitations" -> 11
      [] tok = "more importantly" -> 16
      [] tok = "perplexity" -> 10
      [] tok = "access to" -> 9
      [] tok = "i appreciate" -> 12
      [] tok = "It is" -> 5
      [] tok = "To complete" -> 11
      [] tok \in {"lyric100", "english100"} -> 100
      [] OTHER -> 1

\* `.length` of the line.
RECURSIVE LineLength(_)
LineLength(line) ==
    IF line = <<>> THEN 0 ELSE TokenLength(Head(line)) + LineLength(Tail(line))

cleanLine(line, wantSmartPhonetic) ==
    LET a == trimLine(stripCitations(trimLine(line)))
        b == IF a # <<>> /\ a[1] = "P" THEN trimLine(Tail(a)) ELSE a
        japaneseChars == CountOf(b, {"K", "H"})
        chineseChars == CountOf(b, {"H"})
        totalChars == LineLength(b)
    IN  IF /\ ~wantSmartPhonetic
           /\ b # <<>>
           /\ totalChars > 5
           /\ totalChars > 0
           /\ 2 * (japaneseChars + chineseChars) > totalChars
        THEN <<>>
        ELSE b

\* The cleaning of the first callPerplexity.
cleanResponse(content, wantSmartPhonetic) ==
    LET text == stripPreamble([n \in DOMAIN trimText(content) |->
                                    stripCitations(trimText(content)[n])])
    IN  [n \in DOMAIN text |-> cleanLine(text[n], wantSmartPhonetic)]

\* -------------------------------- the cleaning of the second callPerplexity
\* The entries of explanationKeywords a phrase matches.
explanationKeywords(tok) ==
    CASE tok = "limitations" -> {"limitations"}
      [] tok = "more importantly" -> {"more importantly"}
      [] OTHER -> {}

\* The entries of explanationIndicators a phrase contains.
explanationIndicators(tok) ==
    CASE tok = "limitations" -> {"limitations"}
      [] tok = "more importantly" -> {"more importantly"}
      [] tok = "perplexity" -> {"perplexity"}
      [] tok = "access to" -> {"access to"}
      [] tok = "i appreciate" -> {"i appreciate"}
      [] OTHER -> {}

\* `unwantedPatterns.some(pattern => pattern.test(trimmed))`
unwantedPatterns(line) ==
    \E n \in DOMAIN line : line[n] \in {"instead", "limitations", "more importantly"}

\* `trimmed.split(/\s+/).length`
InnerBlanks(tok) ==
    CASE tok \in {"more importantly", "access to", "i appreciate", "It is", "To complete"} -> 1
      [] tok = "lyric100" -> 24
      [] tok = "english100" -> 17
      [] OTHER -> 0

RECURSIVE SumInnerBlanks(_)
SumInnerBlanks(line) ==
    IF line = <<>> THEN 0 ELSE InnerBlanks(Head(line)) + SumInnerBlanks(Tail(line))

BlankRuns(line) ==
    Cardinality({n \in DOMAIN line : line[n] = " " /\ (n = 1 \/ line[n - 1] # " ")})

totalWordCount(line) == 1 + BlankRuns(line) + SumInnerBlanks(line)

\* `(trimmed.match(/\b[a-zA-Z]{3,}\b/g) || []).length`
EnglishWords(tok) ==
    CASE tok \in {"instead", "limitations", "perplexity", "access to"} -> 1
      [] tok = "more importantly" -> 2
      [] tok \in {"To complete", "i appreciate"} -> 1
      [] tok = "english100" -> 15
      [] OTHER -> 0

RECURSIVE SumEnglishWords(_)
SumEnglishWords(line) ==
    IF line = <<>> THEN 0 ELSE EnglishWords(Head(line)) + SumEnglishWords(Tail(line))

LetterRuns(line) ==
    Cardinality({n \in DOMAIN line :
        /\ n + 2 <= Len(line)
        /\ line[n] = "L" /\ line[n + 1] = "L" /\ line[n + 2] = "L"
        /\ (n = 1 \/ line[n - 1] # "L")})

englishWordCount(line) == SumEnglishWords(line) + LetterRuns(line)

\* `(trimmed.match(/\b(I|you|we|...)\b/gi) || []).length`
Pronouns(tok) ==
    CASE tok = "english100" -> 3
      [] tok \in {"It is", "i appreciate"} -> 1
      [] OTHER -> 0

RECURSIVE pronounCount(_)
pronounCount(line) ==
    IF line = <<>> THEN 0 ELSE Pronouns(Head(line)) + pronounCount(Tail(line))

\* The callback of `lines.filter(line => ...)`: TRUE for a line that stays.
keepsLine(line) ==
    LET trimmed == trimLine(line)
    IN  IF trimmed = <<>> THEN FALSE
        ELSE IF unwantedPatterns(trimmed) THEN FALSE
        ELSE IF Len(trimmed) >= 2 /\ trimmed[1] = "-" /\ trimmed[2] = " " THEN FALSE
        ELSE IF trimmed[1] = "[1]" THEN FALSE
        ELSE IF trimmed[1] = "It is" /\ LineLength(trimmed) > 100 THEN FALSE
        ELSE IF trimmed[1] = "To complete" /\ LineLength(trimmed) > 80 THEN FALSE
        ELSE IF /\ LineLength(trimmed) > 50
                /\ totalWordCount(trimmed) > 0
                /\ 10 * englishWordCount(trimmed) > 7 * totalWordCount(trimmed)
                /\ pronounCount(trimmed) > 2
                /\ LineLength(trimmed) > 100
             THEN FALSE
        ELSE TRUE

\* The phrases of a text, whatever line they stand on.
PhrasesOf(lines) == UNION {{lines[n][m] : m \in DOMAIN lines[n]} : n \in DOMAIN lines}

MsgExplanation == <<"Invalid response: explanation text detected">>

NotBlankLine(line) == trimLine(line) # <<>>

\* `translatedLines.join(' ').length`
RECURSIVE JoinedLength(_)
JoinedLength(lines) ==
    IF lines = <<>> THEN 0
    ELSE IF Len(lines) = 1 THEN LineLength(lines[1])
    ELSE LineLength(Head(lines)) + 1 + JoinedLength(Tail(lines))

\* The cleaning of the second callPerplexity: the text is rejected as an
\* explanation, or its lines are filtered.
cleanResponseSecond(content, wantSmartPhonetic) ==
    LET translatedText == trimText(content)
        explanationCount ==
            Cardinality(UNION {explanationKeywords(tok) : tok \in PhrasesOf(translatedText)})
        lines == SelectSeq(translatedText, keepsLine)
        translatedLines == SelectSeq(lines, NotBlankLine)
        indicatorCount ==
            Cardinality(UNION {explanationIndicators(tok) : tok \in PhrasesOf(translatedLines)})
    IN  IF content = << <<>> >> THEN Err("Error", MsgInvalidFormat)
        ELSE IF explanationCount >= 2 THEN Err("Error", MsgExplanation)
        ELSE IF /\ translatedLines # <<>>
                /\ indicatorCount >= 2
                /\ JoinedLength(translatedLines) > 150
             THEN Err("Error", MsgExplanation)
        ELSE IF /\ translatedLines # <<>>
                /\ "i appreciate" \in PhrasesOf(translatedLines)
                /\ "perplexity" \in PhrasesOf(translatedLines)
             THEN Err("Error", MsgExplanation)
        ELSE Ok(translatedLines)

\* ------------------------------------------------------ provider responses
\* What one fetch can produce: `throw` names the error fetch rejects with
\* ("" when it resolves), otherwise an HTTP status and a body.  `parse` says
\* whether the body is JSON; `message` is the text an error body carries.
NoMessage == <<>>
Body(parse, message, translation, phonetic, vi, content) ==
    [parse |-> parse, message |-> message, translation |-> translation,
     phonetic |-> phonetic, vi |-> vi, content |-> content]
EmptyBody == Body(TRUE, NoMessage, Undefined, Undefined, Undefined, Undefined)
Response(throw, status, body) == [throw |-> throw, status |-> status, body |-> body]

LinesT == << <<"L", "L">>, <<>>, <<"L">> >>
LinesP == << <<"L">> >>
LinesV == << <<"L", "L", "L">> >>
ContentA == << <<"L", "L", "[1]">>, <<>>, <<"H", "H", "H", "H", "L", "L">> >>

\* A body with an error field and nothing else, as the backend sends it with
\* status 200 when the provider's quota is used up.
QuotaBody ==
    Body(TRUE, <<"RESOURCE_EXHAUSTED", ": ", "quota", " exceeded">>,
         Undefined, Undefined, Undefined, Undefined)

ErrorBodies ==
    { Body(TRUE, m, Undefined, Undefined, Undefined, Undefined) :
        m \in {NoMessage, <<"bad request">>, <<"limit is 1", "403", " tokens">>,
               <<"API key not valid">>, <<"Invalid API Key">>} }
        \cup {Body(FALSE, <<"gateway down">>, Undefined, Undefined, Undefined, Undefined)}

GeminiResponses ==
    { Response("AbortError", 0, EmptyBody), Response("TypeError", 0, EmptyBody),
      Response("", 200, Body(TRUE, NoMessage, LinesT, LinesP, Undefined, Undefined)),
      Response("", 200, Body(TRUE, NoMessage, LinesT, Undefined, LinesV, Undefined)),
      Response("", 200, EmptyBody),
      Response("", 200, QuotaBody),
      Response("", 200, Body(FALSE, NoMessage, Undefined, Undefined, Undefined, Undefined)) }
        \cup { Response("", s, EmptyBody) : s \in {429, 401, 403, 400, 404, 500} }

PerplexityResponses ==
    { Response("AbortError", 0, EmptyBody), Response("TypeError", 0, EmptyBody),
      Response("", 200, Body(TRUE, NoMessage, Undefined, Undefined, Undefined, ContentA)),
      Response("", 200, EmptyBody),
      Response("", 200, Body(FALSE, NoMessage, Undefined, Undefined, Undefined, Undefined)) }
        \cup { Response("", s, EmptyBody) : s \in {429, 401, 403, 500} }
        \cup { Response("", 400, b) : b \in ErrorBodies }

Responses(prov) == IF prov = "gemini" THEN GeminiResponses ELSE PerplexityResponses

MsgFetchFailed == <<"Failed to fetch">>
MsgJsonSyntax == <<"Unexpected token in JSON">>

\* The catch block that ends executeRequest: an AbortError becomes the
\* localized time-out error, anything else is rethrown as it is.
rethrow(error) ==
    IF error.name = "AbortError" THEN Err("Error", MsgTimeout) ELSE error

executeRequestGemini(res, wantSmartPhonetic) ==
    IF res.throw # "" THEN rethrow(Err(res.throw, MsgFetchFailed))
    ELSE IF ~(res.status \in 200..299)
    THEN IF res.status = 429 THEN Err("Error", MsgRateLimit)
         ELSE IF res.status \in {401, 403} THEN Err("Error", MsgForbidden)
         ELSE Err("Error", handleAPIError(res.status))
    ELSE IF ~res.body.parse THEN Err("SyntaxError", MsgJsonSyntax)
    ELSE IF wantSmartPhonetic
         THEN Ok([phonetic |-> OrElse(res.body.phonetic, <<>>), translation |-> Undefined])
         ELSE Ok([phonetic |-> Undefined,
                  translation |-> OrElse(res.body.vi, OrElse(res.body.translation, <<>>))])

\* errorData.error?.message || errorData.message || errorData.detail
\*   || errorData.error || `HTTP ${res.status}`
perplexityErrorMessage(res) ==
    IF res.body.message # NoMessage THEN res.body.message
    ELSE <<"HTTP", ToString(res.status)>>

executeRequestPerplexity(res, wantSmartPhonetic) ==
    IF res.throw # "" THEN rethrow(Err(res.throw, MsgFetchFailed))
    ELSE IF ~(res.status \in 200..299)
    THEN IF res.status = 429 THEN Err("Error", MsgRateLimit)
         ELSE IF res.status \in {401, 403} THEN Err("Error", MsgForbidden)
         ELSE IF res.status = 400 THEN Err("Error", perplexityErrorMessage(res))
         ELSE Err("Error", handleAPIError(res.status))
    ELSE IF ~res.body.parse THEN Err("SyntaxError", MsgJsonSyntax)
    ELSE IF res.body.content = Undefined THEN Err("Error", MsgInvalidFormat)
    ELSE IF wantSmartPhonetic
         THEN Ok([phonetic |-> cleanResponse(res.body.content, TRUE), translation |-> Undefined])
         ELSE Ok([phonetic |-> Undefined, translation |-> cleanResponse(res.body.content, FALSE)])

executeRequest(prov, res, wantSmartPhonetic) ==
    IF prov = "gemini" THEN executeRequestGemini(res, wantSmartPhonetic)
    ELSE executeRequestPerplexity(res, wantSmartPhonetic)

\* =================================================================== state
VARIABLES
    caller,             \* each invocation: its arguments, locals and position
    promise,            \* requestPromise of caller c's run of a provider
    inflightRequests,   \* _inflightRequests: request key -> promise
    pendingRetries,     \* _pendingRetries: request key -> polling promise
    cache,              \* LyricsCache translation store: cache key -> entry
    pendingWrites,      \* LyricsCache.setTranslation calls still in the background
    apiKeyCache,        \* Translator._apiKeyCache
    sanitizer,          \* one run of the response cleaning of callPerplexity
    karaoke,            \* one run of getKaraoke
    metadataCache,      \* Translator._metadataCache: cache key -> entry
    metadataInflightRequests, \* Translator._metadataInflightRequests
    metadataStore,      \* LyricsCache metadata store: cache key -> entry
    metadataWrites,     \* LyricsCache.setMetadata calls still in the background
    metadataCall,       \* each invocation of translateMetadata
    library,            \* what becomes of each language's helper scripts
    scripts,            \* languages whose <script> elements are in the document
    finished,           \* this.finished of the Translator instance
    helper,             \* this.kuroshiro / this.Aromanize / this.OpenCC are set
    initializationPromise, \* this.initializationPromise
    conversion,         \* initializeAsync and each conversion call
    lyricsCache,        \* LyricsCache lyrics store: track id -> response
    lyricsWrites,       \* LyricsCache.setLyrics calls still in the background
    currentTrack,       \* what ApiTracker.getCurrentTrack() returns
    lyricsCall          \* each invocation of ProviderIvLyrics.findLyrics

vars == <<caller, promise, inflightRequests, pendingRetries, cache, pendingWrites,
          apiKeyCache, sanitizer, karaoke, metadataCache, metadataInflightRequests,
          metadataStore, metadataWrites, metadataCall, library, scripts, finished,
          helper, initializationPromise, conversion, lyricsCache, lyricsWrites,
          currentTrack, lyricsCall>>

\* The state of the lyric translation calls.
translatorVars == <<caller, promise, inflightRequests, pendingRetries, cache,
                    pendingWrites, apiKeyCache>>

\* The state of translateMetadata, which the other operations leave alone.
metadataVars == <<metadataCache, metadataInflightRequests, metadataStore,
                  metadataWrites, metadataCall>>

\* One Translator instance and its conversion calls.
converterVars == <<library, scripts, finished, helper, initializationPromise, conversion>>

\* The state of ProviderIvLyrics.findLyrics.
lyricsVars == <<lyricsCache, lyricsWrites, currentTrack, lyricsCall>>

\* The runs of pure functions, which the translator's actions leave alone.
pureVars == <<sanitizer, karaoke>>
NoRun == [pc |-> "none"]

NoOutcome == [ok |-> FALSE, name |-> "none", message |-> <<>>, value |-> Undefined]
NoPromise == <<>>
Pending == [state |-> "pending", result |-> NoOutcome]
Unused == [state |-> "unused", result |-> NoOutcome]
Settled(out) == [state |-> "settled", result |-> out]

\* ------------------------------------ the second callPerplexity's request
\* A body as the second callPerplexity reads it: `error` and `message` are
\* the texts of these two fields (NoMessage when absent); a body that is not
\* JSON has its raw text in `message`.
Data(parse, error, message, content) ==
    [parse |-> parse, error |-> error, message |-> message, content |-> content]
EmptyData == Data(TRUE, NoMessage, NoMessage, Undefined)
NoResponse == Response("none", 0, EmptyData)

ContentRefusal == << <<"limitations">>, <<"more importantly", " ", "L">> >>

RepliesSecond ==
    { Response("AbortError", 0, EmptyData),
      Response("", 200, Data(TRUE, NoMessage, NoMessage, ContentA)),
      Response("", 200, Data(TRUE, NoMessage, NoMessage, ContentRefusal)),
      Response("", 200, Data(TRUE, <<"rate_limit", " exceeded">>, NoMessage, Undefined)),
      Response("", 200, EmptyData),
      Response("", 429, EmptyData),
      Response("", 403, EmptyData),
      Response("", 401, Data(TRUE, NoMessage, <<"unauthorized">>, Undefined)),
      Response("", 500, Data(FALSE, NoMessage, <<"gateway down">>, Undefined)) }

MsgForbiddenSecond == <<"403", "Forbidden">>
MsgAllEndpoints == <<"All endpoints failed">>
MsgUnknown == <<"Unknown error">>
MsgTranslationFailed == <<"Translation failed">>
MsgInvalidJson == <<"Invalid JSON from Perplexity">>

\* `HTTP ${res.status}: ${errorData.message || rawText || "Unknown error"}`
httpError(res) ==
    <<"HTTP ", ToString(res.status), ": ">>
        \o (IF res.body.message # NoMessage THEN res.body.message
            ELSE IF res.body.parse THEN <<"{}">> ELSE MsgUnknown)

\* What executeRequest of the second callPerplexity makes of the candidate
\* loop's last response `res` (NoResponse when every fetch threw) and of the
\* last error a fetch threw.
executeRequestSecond(res, lastError, wantSmartPhonetic) ==
    IF res = NoResponse
    THEN rethrow(IF lastError # NoOutcome THEN lastError ELSE Err("Error", MsgAllEndpoints))
    ELSE IF ~(res.status \in 200..299)
    THEN IF res.status = 429 THEN Err("Error", MsgRateLimit)
         ELSE IF res.status = 403 THEN Err("Error", MsgForbiddenSecond)
         ELSE IF res.body.parse /\ res.body.error # NoMessage /\ res.body.message # NoMessage
              THEN Err("Error", res.body.message)
         ELSE IF res.body.parse /\ res.body.error # NoMessage
              THEN Err("Error", res.body.error)
         ELSE Err("Error", httpError(res))
    ELSE IF ~res.body.parse THEN Err("Error", MsgInvalidJson)
    ELSE IF res.body.error # NoMessage
    THEN IF Includes(res.body.error, "429") \/ Includes(res.body.error, "rate_limit")
         THEN Err("Error", <<"429", "Rate Limit", ": ">> \o res.body.error)
         ELSE IF Includes(res.body.error, "403") \/ Includes(res.body.error, "Forbidden")
         THEN Err("Error", <<"403", "Forbidden", ": ">> \o res.body.error)
         ELSE Err("Error", IF res.body.message # NoMessage THEN res.body.message
                           ELSE MsgTranslationFailed)
    ELSE IF res.body.content = Undefined THEN Err("Error", MsgInvalidFormat)
    ELSE LET cleaned == cleanResponseSecond(res.body.content, wantSmartPhonetic)
         IN  IF ~cleaned.ok THEN cleaned
             ELSE IF wantSmartPhonetic
                  THEN Ok([phonetic |-> cleaned.value, translation |-> Undefined])
                  ELSE Ok([phonetic |-> Undefined, translation |-> cleaned.value])

\* What a caller did, in order: "cache" a read of LyricsCache, "lookup" a look
\* at _inflightRequests, "net" a fetch issued with a key, "ret" the HTTP status
\* that fetch got (0 when it threw) and the outcome of executeRequest.
Event(ev, prov, key) ==
    [ev |-> ev, prov |-> prov, key |-> key, status |-> 0, out |-> NoOutcome]
Returned(prov, key, res, out) ==
    [ev |-> "ret", prov |-> prov, key |-> key,
     status |-> IF res.throw # "" THEN 0 ELSE res.status, out |-> out]

IdleCaller ==
    [pc |-> "idle", entry |-> "", trackId |-> NoTrack, text |-> FALSE,
     wantSmartPhonetic |-> FALSE, ignoreCache |-> FALSE,
     hasPerplexityKey |-> FALSE, hasGeminiKey |-> FALSE,
     definition |-> "first", model |-> 0, res |-> NoResponse, lastError |-> NoOutcome,
     prov |-> "", apiKeys |-> [p \in Providers |-> <<>>], finalTrackId |-> NoTrack, userLang |-> "", i |-> 0,
     joined |-> [p \in Providers |-> NoPromise],
     cached |-> [p \in Providers |-> NoOutcome],
     perplexityError |-> NoOutcome,
     returned |-> [p \in Providers |-> NoOutcome],
     outcome |-> NoOutcome, log |-> <<>>, after |-> {}]

\* The environment's answers when a step consults none of them.
NoInput == [raw |-> RawNull, playing |-> NoTrack, lang |-> "ko"]

\* The second callPerplexity appends ":perplexity" to the request key and
\* hands its `provider` argument, null in a direct call, to LyricsCache.
RequestKeyOf(r) ==
    IF r.definition = "second" /\ r.prov = "perplexity"
    THEN getRequestKey(r.finalTrackId, r.wantSmartPhonetic, r.userLang) \o <<":perplexity">>
    ELSE getRequestKey(r.finalTrackId, r.wantSmartPhonetic, r.userLang)
CacheKeyOf(r) ==
    IF r.definition = "second"
    THEN CacheKey(r.finalTrackId, r.userLang, r.wantSmartPhonetic) \o <<"null">>
    ELSE CacheKey(r.finalTrackId, r.userLang, r.wantSmartPhonetic)

Has(map, key) == key \in DOMAIN map
Put(map, key, value) == [k \in DOMAIN map \cup {key} |-> IF k = key THEN value ELSE map[k]]
Delete(map, key) == [k \in DOMAIN map \ {key} |-> map[k]]
EmptyMap == [k \in {} |-> NoPromise]

\* ------------------------------------------------------ steps of one caller
finish(r, out) == [r EXCEPT !.pc = "done", !.outcome = out]

\* The pool walked from its last key to its first.
keyAtReversed(apiKeys, i) == apiKeys[Len(apiKeys) + 1 - i]

\* `const key = apiKeys[i]` (the model counts keys from 1)
keyAt(apiKeys, i) == apiKeys[i]

\* executeRequest(key) issues its fetch for the i-th key of the pool.
tryKey(r, i) ==
    [r EXCEPT !.pc = "fetching", !.i = i,
              !.model = 1, !.res = NoResponse, !.lastError = NoOutcome,
              !.log = Append(@, Event("net", r.prov, keyAt(r.apiKeys[r.prov], i)))]

\* runWithRotation starts with the first key.
runWithRotation(r) == tryKey(r, 1)

\* `!ignoreCache && _inflightRequests.has(requestKey)`
isDuplicate(requests, requestKey, ignoreCache) ==
    ~ignoreCache /\ Has(requests, requestKey)

\* The registration without its ignoreCache guard.
registerAlways(requests, requestKey, requestPromise, ignoreCache) ==
    Put(requests, requestKey, requestPromise)

\* `if (!ignoreCache) _inflightRequests.set(requestKey, requestPromise)`
register(requests, requestKey, requestPromise, ignoreCache) ==
    IF ~ignoreCache THEN Put(requests, requestKey, requestPromise) ELSE requests

\* `.then` in place of `.finally`: the entry is deleted on success only.
releaseOnSuccess(requests, requestKey, settled) ==
    IF settled.ok THEN Delete(requests, requestKey) ELSE requests

\* `.finally(() => { _inflightRequests.delete(requestKey) })`
release(requests, requestKey, settled) == Delete(requests, requestKey)

\* `if (!ignoreCache) { localCached = await LyricsCache.getTranslation(..) }`
readsCache(ignoreCache) == ~ignoreCache

\* The value of localCached when the read settles; a failed read is caught.
localCached(store, key, readFails) ==
    IF ~readFails /\ Has(store, key) THEN Ok(store[key]) ELSE NoOutcome

\* The dedup hit is noticed but the stored promise is not returned: the
\* caller goes on to its own request.
dedupOrRunNoReturn(r, requests) ==
    LET looked == IF r.ignoreCache THEN r
                  ELSE [r EXCEPT !.log = Append(@, Event("lookup", r.prov, ""))]
    IN  IF isDuplicate(requests, RequestKeyOf(r), r.ignoreCache)
        THEN runWithRotation([looked EXCEPT !.joined[r.prov] = requests[RequestKeyOf(r)]])
        ELSE runWithRotation(looked)

\* callGemini / callPerplexity from the dedup check on: join the request in
\* flight, or start a request (which the action then registers).
dedupOrRun(r, requests) ==
    LET looked == IF r.ignoreCache THEN r
                  ELSE [r EXCEPT !.log = Append(@, Event("lookup", r.prov, ""))]
    IN  IF isDuplicate(requests, RequestKeyOf(r), r.ignoreCache)
        THEN [looked EXCEPT !.pc = "joined", !.joined[r.prov] = requests[RequestKeyOf(r)]]
        ELSE runWithRotation(looked)

RECURSIVE providerReturns(_, _, _, _)
RECURSIVE callProvider(_, _, _, _)

\* callGemini / callPerplexity up to their first suspension point.
callProvider(r0, prov, inp, requests) ==
    LET apiKeys == parseApiKeys(inp.raw)
        finalTrackId == IF r0.trackId # NoTrack THEN r0.trackId ELSE inp.playing
        r == [r0 EXCEPT !.prov = prov, !.apiKeys[prov] = apiKeys, !.finalTrackId = finalTrackId,
                        !.userLang = inp.lang, !.i = 0]
    IN  IF ~r0.text THEN providerReturns(r, Err("Error", MsgNoText), inp, requests)
        ELSE IF Len(apiKeys) = 0
             THEN providerReturns(r, Err("Error", MsgMissingApiKey), inp, requests)
        ELSE IF finalTrackId = NoTrack
             THEN providerReturns(r, Err("Error", MsgNoTrack), inp, requests)
        ELSE IF readsCache(r.ignoreCache)
             THEN [r EXCEPT !.pc = "cacheRead", !.log = Append(@, Event("cache", prov, ""))]
             ELSE dedupOrRun(r, requests)

\* What callTranslationAPI (or the direct caller) does with the outcome of
\* callPerplexity / callGemini.
providerReturns(r0, out, inp, requests) ==
    LET r == [r0 EXCEPT !.returned[r0.prov] = out]
    IN  IF r.entry # "api" THEN finish(r, out)
        ELSE IF r.prov = "perplexity"
        THEN IF out.ok THEN finish(r, out)
             ELSE IF r.hasGeminiKey /\ shouldFallback(out.message)
                  THEN callProvider([r EXCEPT !.perplexityError = out], "gemini", inp, requests)
                  ELSE finish(r, out)
        ELSE IF r.perplexityError = NoOutcome \/ out.ok THEN finish(r, out)
             ELSE finish(r, bothProvidersFailed(r.perplexityError, out))

\* The outcome makes callTranslationAPI go on to callGemini.
FallsBack(r, out) ==
    /\ r.entry = "api" /\ r.prov = "perplexity"
    /\ ~out.ok /\ r.hasGeminiKey /\ shouldFallback(out.message)

\* The player's current track is consulted only when no trackId was passed.
InputsFor(r, inputs) == {inp \in inputs : r.trackId # NoTrack => inp.playing = NoTrack}

\* The run of provider `prov` that caller c owns, if the step started one.
Started(c, r, rNew) ==
    IF rNew.pc = "fetching" /\ (r.pc # "fetching" \/ r.prov # rNew.prov)
    THEN {<<c, rNew.prov>>} ELSE {}

WithStarted(c, r, rNew, promises) ==
    [p \in DOMAIN promises |-> IF p \in Started(c, r, rNew) THEN Pending ELSE promises[p]]

\* The registry once the request the step started, if any, is registered.
WithRegistered(c, r, rNew, requests) ==
    IF Started(c, r, rNew) # {}
    THEN register(requests, RequestKeyOf(rNew), <<c, rNew.prov>>, rNew.ignoreCache)
    ELSE requests

\* ----------------------------------------------------------------- actions
\* The callers whose call has not got past its first cache read yet: a call
\* made now follows theirs in immediate succession.
StillReading == {d \in Callers : caller[d].pc = "cacheRead" /\ caller[d].returned["perplexity"] = NoOutcome}

\* _getApiKeys: the cached flags while the cache is fresh, else a re-read.
getApiKeys(rawPerplexity, rawGemini) ==
    IF apiKeyCache.fresh THEN apiKeyCache
    ELSE [perplexity |-> cachedKeyValue(rawPerplexity),
          gemini |-> cachedKeyValue(rawGemini), fresh |-> TRUE]

\* The orchestrator without its check of the stored keys.
missingBothKeysUnchecked(hasPerplexityKey, hasGeminiKey) == FALSE

\* `if (!hasPerplexityKey && !hasGeminiKey)`
missingBothKeys(hasPerplexityKey, hasGeminiKey) == ~hasPerplexityKey /\ ~hasGeminiKey

CallTranslationAPI(c, args, rawPerplexity, rawGemini, inp) ==
    /\ caller[c].pc = "idle"
    /\ apiKeyCache.fresh => rawPerplexity = RawNull /\ rawGemini = RawNull
    /\ args.trackId # NoTrack => inp.playing = NoTrack
    /\ LET keys == getApiKeys(rawPerplexity, rawGemini)
           hasPerplexityKey == keys.perplexity # RawNull
           hasGeminiKey == keys.gemini # RawNull
           r == [caller[c] EXCEPT !.entry = "api", !.trackId = args.trackId,
                                  !.text = args.text,
                                  !.wantSmartPhonetic = args.wantSmartPhonetic,
                                  !.ignoreCache = args.ignoreCache,
                                  !.hasPerplexityKey = hasPerplexityKey,
                                  !.hasGeminiKey = hasGeminiKey,
                                  !.after = StillReading]
           rNew == IF missingBothKeys(hasPerplexityKey, hasGeminiKey)
                   THEN finish(r, Err("Error", MsgMissingApiKey))
                   ELSE IF hasPerplexityKey
                        THEN callProvider(r, "perplexity", inp, inflightRequests)
                        ELSE callProvider(r, "gemini", inp, inflightRequests)
       IN  /\ apiKeyCache' = keys
           /\ caller' = [caller EXCEPT ![c] = rNew]
           /\ promise' = WithStarted(c, caller[c], rNew, promise)
           /\ inflightRequests' = WithRegistered(c, caller[c], rNew, inflightRequests)
    /\ UNCHANGED <<cache, pendingWrites, pendingRetries, pureVars, lyricsVars, metadataVars, converterVars>>

\* A direct call of callGemini or callPerplexity.
CallDirect(c, prov, args, inp) ==
    /\ caller[c].pc = "idle"
    /\ args.trackId # NoTrack => inp.playing = NoTrack
    /\ LET r == [caller[c] EXCEPT !.entry = prov, !.trackId = args.trackId,
                                  !.text = args.text,
                                  !.wantSmartPhonetic = args.wantSmartPhonetic,
                                  !.ignoreCache = args.ignoreCache,
                                  !.after = StillReading]
           rNew == callProvider(r, prov, inp, inflightRequests)
       IN  /\ caller' = [caller EXCEPT ![c] = rNew]
           /\ promise' = WithStarted(c, caller[c], rNew, promise)
           /\ inflightRequests' = WithRegistered(c, caller[c], rNew, inflightRequests)
    /\ UNCHANGED <<cache, pendingWrites, apiKeyCache, pendingRetries, pureVars, lyricsVars, metadataVars, converterVars>>

\* The cache hit is noticed but not returned: the caller goes on to the
\* registry and the network as on a miss.
CacheReadReturnNoReturn(c, readFails) ==
    /\ caller[c].pc = "cacheRead"
    /\ LET r == caller[c]
           hit == localCached(cache, CacheKeyOf(r), readFails)
           read == [r EXCEPT !.cached[r.prov] = hit]
           rNew == dedupOrRun(read, inflightRequests)
       IN  /\ caller' = [caller EXCEPT ![c] = rNew]
           /\ promise' = WithStarted(c, r, rNew, promise)
           /\ inflightRequests' = WithRegistered(c, r, rNew, inflightRequests)
    /\ UNCHANGED <<cache, pendingWrites, apiKeyCache, pendingRetries, pureVars, lyricsVars, metadataVars, converterVars>>

\* LyricsCache.getTranslation settles; the caller goes on to the dedup check
\* and, if nothing is in flight, starts and registers its own request.
CacheReadReturn(c, readFails) ==
    /\ caller[c].pc = "cacheRead"
    /\ LET r == caller[c]
           hit == localCached(cache, CacheKeyOf(r), readFails)
           read == [r EXCEPT !.cached[r.prov] = hit]
           rNew == IF hit # NoOutcome
                   THEN providerReturns(read, hit, NoInput, inflightRequests)
                   ELSE dedupOrRun(read, inflightRequests)
       IN  /\ caller' = [caller EXCEPT ![c] = rNew]
           /\ promise' = WithStarted(c, r, rNew, promise)
           /\ inflightRequests' = WithRegistered(c, r, rNew, inflightRequests)
    /\ UNCHANGED <<cache, pendingWrites, apiKeyCache, pendingRetries, pureVars, lyricsVars, metadataVars, converterVars>>

\* A write-back that does not wait for the outcome of executeRequest.
writeBackAlways(writes, r, result) ==
    writes \cup {[key |-> CacheKeyOf(r), value |-> result.value]}

\* `LyricsCache.setTranslation(finalTrackId, userLang, wantSmartPhonetic, result)`
\* is the last statement of executeRequest before `return result`: every throw
\* of the function leaves before it.
writeBack(writes, r, result) ==
    IF result.ok
    THEN writes \cup {[key |-> CacheKeyOf(r), value |-> result.value]}
    ELSE writes

\* The fetch of executeRequest(apiKeys[i]) settles with response res.
FetchReturn(c, res, inputs) ==
    /\ caller[c].pc = "fetching"
    /\ caller[c].definition = "first"
    /\ LET result == executeRequest(caller[c].prov, res, caller[c].wantSmartPhonetic)
           r == [caller[c] EXCEPT !.log = Append(@,
                     Returned(caller[c].prov, keyAt(caller[c].apiKeys[caller[c].prov], caller[c].i),
                              res, result))]
           rotate == ~result.ok /\ shouldRotate(result.message)
           final == IF rotate THEN allKeysFailed(result) ELSE result
       IN  IF rotate /\ r.i < Len(r.apiKeys[r.prov])
           THEN /\ caller' = [caller EXCEPT ![c] = tryKey(r, r.i + 1)]
                /\ UNCHANGED <<promise, inflightRequests, pendingWrites>>
           ELSE \E inp \in (IF FallsBack(r, final) THEN InputsFor(r, inputs) ELSE {NoInput}) :
                LET released == release(inflightRequests, RequestKeyOf(r), final)
                    rNew == providerReturns(r, final, inp, released)
                IN  /\ caller' = [caller EXCEPT ![c] = rNew]
                    /\ promise' = WithStarted(c, caller[c], rNew,
                                     [promise EXCEPT ![<<c, r.prov>>] = Settled(final)])
                    /\ inflightRequests' = WithRegistered(c, caller[c], rNew, released)
                    /\ pendingWrites' = writeBack(pendingWrites, r, result)
    /\ UNCHANGED <<cache, apiKeyCache, pendingRetries, pureVars, lyricsVars, metadataVars, converterVars>>

\* A direct call of the second callPerplexity.
CallPerplexitySecond(c, args, inp) ==
    /\ caller[c].pc = "idle"
    /\ args.trackId # NoTrack => inp.playing = NoTrack
    /\ LET r == [caller[c] EXCEPT !.entry = "perplexity", !.definition = "second",
                                  !.trackId = args.trackId, !.text = args.text,
                                  !.wantSmartPhonetic = args.wantSmartPhonetic,
                                  !.ignoreCache = args.ignoreCache,
                                  !.after = StillReading]
           rNew == callProvider(r, "perplexity", inp, inflightRequests)
       IN  /\ caller' = [caller EXCEPT ![c] = rNew]
           /\ promise' = WithStarted(c, caller[c], rNew, promise)
           /\ inflightRequests' = WithRegistered(c, caller[c], rNew, inflightRequests)
    /\ UNCHANGED <<cache, pendingWrites, apiKeyCache, pendingRetries, pureVars, lyricsVars, metadataVars, converterVars>>

\* runWithRotation of the second callPerplexity takes the outcome `result` of
\* executeRequest(apiKeys[i]): the next key, or the request settles, its
\* `.finally` releases the registry entry and the caller resumes.
rotateOrSettle(c, r0, shown, result) ==
    LET r == [r0 EXCEPT !.log = Append(@, Returned(r0.prov, keyAt(r0.apiKeys[r0.prov], r0.i),
                                                   shown, result))]
        rotate == ~result.ok /\ shouldRotate(result.message)
        final == IF rotate THEN allKeysFailed(result) ELSE result
    IN  IF rotate /\ r.i < Len(r.apiKeys[r.prov])
        THEN /\ caller' = [caller EXCEPT ![c] = tryKey(r, r.i + 1)]
             /\ UNCHANGED <<promise, inflightRequests, pendingWrites>>
        ELSE LET released == release(inflightRequests, RequestKeyOf(r), final)
                 rNew == providerReturns(r, final, NoInput, released)
             IN  /\ caller' = [caller EXCEPT ![c] = rNew]
                 /\ promise' = WithStarted(c, caller[c], rNew,
                                  [promise EXCEPT ![<<c, r.prov>>] = Settled(final)])
                 /\ inflightRequests' = WithRegistered(c, caller[c], rNew, released)
                 /\ pendingWrites' = writeBack(pendingWrites, r, result)

\* One fetch of the candidate loop in executeRequest(apiKeys[i]) of the
\* second callPerplexity settles with `reply`: the loop goes on to the next
\* model unless the reply is ok or the candidates are used up, and then the
\* request is evaluated and runWithRotation goes on.
FetchReturnSecond(c, reply) ==
    /\ caller[c].pc = "fetching"
    /\ caller[c].definition = "second" /\ caller[c].prov = "perplexity"
    /\ LET res == IF reply.throw # "" THEN caller[c].res ELSE reply
           lastError == IF reply.throw # "" THEN Err(reply.throw, MsgFetchFailed)
                        ELSE caller[c].lastError
           loopEnds == \/ reply.throw = "" /\ reply.status \in 200..299
                       \/ caller[c].model = ModelCandidates
       IN  IF ~loopEnds
           THEN /\ caller' = [caller EXCEPT ![c] =
                        [@ EXCEPT !.model = @ + 1, !.res = res, !.lastError = lastError,
                                  !.log = Append(@, Event("net", caller[c].prov,
                                             keyAt(caller[c].apiKeys[caller[c].prov], caller[c].i)))]]
                /\ UNCHANGED <<promise, inflightRequests, pendingWrites>>
           ELSE rotateOrSettle(c, [caller[c] EXCEPT !.res = res, !.lastError = lastError],
                               IF res = NoResponse THEN reply ELSE res,
                               executeRequestSecond(res, lastError, caller[c].wantSmartPhonetic))
    /\ UNCHANGED <<cache, apiKeyCache, pendingRetries, pureVars, lyricsVars, metadataVars, converterVars>>

\* ---------------------------------------- the second callGemini's request
\* A body as the second callGemini reads it: `status`, `error` and `message`
\* are the texts of these fields ("" or NoMessage when absent).
GeminiData(parse, status, error, message, translation, phonetic) ==
    [parse |-> parse, status |-> status, error |-> error, message |-> message,
     translation |-> translation, phonetic |-> phonetic]
EmptyGeminiData == GeminiData(TRUE, "", NoMessage, NoMessage, Undefined, Undefined)

\* The body the backend sends with 202 while another client's translation of
\* the same track is running.
InProgressData ==
    GeminiData(TRUE, "translation_in_progress", NoMessage, <<"in progress">>,
               Undefined, Undefined)

RepliesGeminiSecond ==
    { Response("AbortError", 0, EmptyGeminiData),
      Response("", 200, GeminiData(TRUE, "", NoMessage, NoMessage, LinesT, LinesP)),
      Response("", 200, EmptyGeminiData),
      Response("", 200, GeminiData(FALSE, "", NoMessage, NoMessage, Undefined, Undefined)),
      Response("", 200, GeminiData(TRUE, "", <<"RESOURCE_EXHAUSTED">>, NoMessage, Undefined, Undefined)),
      Response("", 200, GeminiData(TRUE, "", <<"quota", " exceeded">>, NoMessage, Undefined, Undefined)),
      Response("", 200, GeminiData(TRUE, "", <<"API key not valid">>, NoMessage, Undefined, Undefined)),
      Response("", 200, GeminiData(TRUE, "", <<"failed">>, <<"bad lyrics">>, Undefined, Undefined)),
      Response("", 202, InProgressData),
      Response("", 429, EmptyGeminiData),
      Response("", 403, EmptyGeminiData),
      Response("", 401, EmptyGeminiData),
      Response("", 500, GeminiData(FALSE, "", NoMessage, <<"gateway down">>, Undefined, Undefined)) }

MsgApiKeyError == <<"translator.apiKeyError">>
MsgTranslationFailedLocalized == <<"translator.translationFailed">>

\* `res.ok`
IsOk(res) == res.status \in 200..299

\* The test that guards the status polling: it sits in the branch taken for
\* `!res || !res.ok`.
startsPolling(res) ==
    /\ res.throw = "" /\ ~IsOk(res)
    /\ res.status = 202 /\ res.body.status = "translation_in_progress"

isRateLimitError(errorStr) ==
    \/ Includes(errorStr, "429") \/ Includes(errorStr, "RESOURCE_EXHAUSTED")
    \/ Includes(errorStr, "quota")
    \/ Includes(errorStr, "rate limit") \/ Includes(errorStr, "Rate Limit")

isForbiddenError(errorStr) ==
    \/ Includes(errorStr, "403") \/ Includes(errorStr, "Forbidden")
    \/ Includes(errorStr, "API key not valid")

\* An error body of a 2xx response, as the second callGemini throws it.
bodyError(data) ==
    IF isRateLimitError(data.error)
    THEN Err("Error", <<"429", "Rate Limit", ": ">> \o data.error)
    ELSE IF isForbiddenError(data.error)
    THEN Err("Error", <<"403", "Forbidden", ": ">> \o data.error)
    ELSE LET errorMessage == IF data.message # NoMessage THEN data.message
                             ELSE MsgTranslationFailedLocalized
         IN  IF Includes(errorMessage, "API") THEN Err("Error", MsgApiKeyError)
             ELSE Err("Error", errorMessage)

\* What executeRequest of the second callGemini makes of a response that
\* does not start the polling.
executeRequestGeminiSecond(res) ==
    IF res.throw # "" THEN rethrow(Err(res.throw, MsgFetchFailed))
    ELSE IF ~IsOk(res)
    THEN IF res.status = 429 THEN Err("Error", MsgRateLimit)
         ELSE IF res.status = 403 THEN Err("Error", MsgForbiddenSecond)
         ELSE IF res.body.parse /\ res.body.error # NoMessage /\ res.body.message # NoMessage
              THEN Err("Error", res.body.message)
         ELSE Err("Error", handleAPIError(res.status))
    ELSE IF ~res.body.parse THEN Err("SyntaxError", MsgJsonSyntax)
    ELSE IF res.body.error # NoMessage THEN bodyError(res.body)
    ELSE Ok(res.body)

\* A direct call of the second callGemini.
CallGeminiSecond(c, args, inp) ==
    /\ caller[c].pc = "idle"
    /\ args.trackId # NoTrack => inp.playing = NoTrack
    /\ LET r == [caller[c] EXCEPT !.entry = "gemini", !.definition = "second",
                                  !.trackId = args.trackId, !.text = args.text,
                                  !.wantSmartPhonetic = args.wantSmartPhonetic,
                                  !.ignoreCache = args.ignoreCache,
                                  !.after = StillReading]
           rNew == callProvider(r, "gemini", inp, inflightRequests)
       IN  /\ caller' = [caller EXCEPT ![c] = rNew]
           /\ promise' = WithStarted(c, caller[c], rNew, promise)
           /\ inflightRequests' = WithRegistered(c, caller[c], rNew, inflightRequests)
    /\ UNCHANGED <<cache, pendingWrites, apiKeyCache, pendingRetries, pureVars, lyricsVars, metadataVars, converterVars>>

\* The fetch of executeRequest(apiKeys[i]) of the second callGemini settles
\* with `reply`: the status polling starts and its promise is kept in
\* _pendingRetries, or the request is evaluated and runWithRotation goes on.
FetchReturnGeminiSecond(c, reply) ==
    /\ caller[c].pc = "fetching"
    /\ caller[c].definition = "second" /\ caller[c].prov = "gemini"
    /\ IF startsPolling(reply)
       THEN /\ pendingRetries' =
                 IF Has(pendingRetries, RequestKeyOf(caller[c])) THEN pendingRetries
                 ELSE Put(pendingRetries, RequestKeyOf(caller[c]), <<c, "gemini">>)
            /\ caller' = [caller EXCEPT ![c] = [@ EXCEPT !.pc = "polling"]]
            /\ UNCHANGED <<promise, inflightRequests, pendingWrites>>
       ELSE /\ rotateOrSettle(c, caller[c], reply, executeRequestGeminiSecond(reply))
            /\ UNCHANGED pendingRetries
    /\ UNCHANGED <<cache, apiKeyCache, pureVars, lyricsVars, metadataVars, converterVars>>

\* A caller that was handed the promise of a request in flight resumes.
AwaitReturn(c, inputs) ==
    /\ caller[c].pc = "joined"
    /\ promise[caller[c].joined[caller[c].prov]].state = "settled"
    /\ LET r == caller[c]
           out == promise[r.joined[r.prov]].result
       IN  \E inp \in (IF FallsBack(r, out) THEN InputsFor(r, inputs) ELSE {NoInput}) :
           LET rNew == providerReturns(r, out, inp, inflightRequests)
           IN  /\ caller' = [caller EXCEPT ![c] = rNew]
               /\ promise' = WithStarted(c, r, rNew, promise)
               /\ inflightRequests' = WithRegistered(c, r, rNew, inflightRequests)
    /\ UNCHANGED <<cache, pendingWrites, apiKeyCache, pendingRetries, pureVars, lyricsVars, metadataVars, converterVars>>

\* The write awaited without a handler: its failure reaches the caller whose
\* response was being stored.
afterWriteUnhandled(r, w, stored) ==
    IF /\ ~stored
       /\ r.pc = "done" /\ r.outcome.ok
       /\ CacheKeyOf(r) = w.key /\ r.outcome.value = w.value
    THEN finish(r, Err("Error", <<"write failed">>))
    ELSE r

\* `LyricsCache.setTranslation(..).catch(() => { })`, not awaited: whatever
\* becomes of the write, no caller hears of it.
afterWrite(r, w, stored) == r

\* A background LyricsCache.setTranslation lands, or fails and is swallowed.
WriteSettles(w, stored) ==
    /\ w \in pendingWrites
    /\ pendingWrites' = pendingWrites \ {w}
    /\ cache' = IF stored THEN Put(cache, w.key, w.value) ELSE cache
    /\ caller' = [c \in Callers |-> afterWrite(caller[c], w, stored)]
    /\ UNCHANGED <<promise, inflightRequests, apiKeyCache, pendingRetries, pureVars, lyricsVars, metadataVars, converterVars>>

\* A clearing that does not look at the keys.
withoutTrackAll(requests, trackId) ==
    IF trackId = NoTrack THEN requests ELSE EmptyMap

\* The entries of a registry that clearInflightRequests(trackId) keeps:
\* `if (!trackId) return`, then every key that starts with `${trackId}:`
\* is deleted.
withoutTrack(requests, trackId) ==
    IF trackId = NoTrack THEN requests
    ELSE [k \in {k \in DOMAIN requests : ~StartsWith(k, trackId \o <<":">>)}
            |-> requests[k]]

\* A clearing that also aborts the fetches of the track's requests.
clearInflightRequestsAborting(trackId) ==
    /\ inflightRequests' = withoutTrack(inflightRequests, trackId)
    /\ pendingRetries' = withoutTrack(pendingRetries, trackId)
    /\ caller' =
          [c \in Callers |->
              IF /\ trackId # NoTrack /\ caller[c].pc = "fetching"
                 /\ StartsWith(RequestKeyOf(caller[c]), trackId \o <<":">>)
              THEN finish(caller[c], Err("Error", MsgTimeout))
              ELSE caller[c]]
    /\ UNCHANGED <<promise, cache, pendingWrites, apiKeyCache, pureVars, lyricsVars, metadataVars, converterVars>>

clearInflightRequests(trackId) ==
    /\ inflightRequests' = withoutTrack(inflightRequests, trackId)
    /\ pendingRetries' = withoutTrack(pendingRetries, trackId)
    /\ UNCHANGED <<caller, promise, cache, pendingWrites, apiKeyCache, pureVars, lyricsVars, metadataVars, converterVars>>

clearAllInflightRequests ==
    /\ inflightRequests' = EmptyMap
    /\ pendingRetries' = EmptyMap
    /\ UNCHANGED <<caller, promise, cache, pendingWrites, apiKeyCache, pureVars, lyricsVars, metadataVars, converterVars>>

\* More than cacheTTL (60 s) passes since _apiKeyCache.lastCheck.
ApiKeyCacheExpires ==
    /\ apiKeyCache.fresh
    /\ apiKeyCache' = [apiKeyCache EXCEPT !.fresh = FALSE]
    /\ UNCHANGED <<caller, promise, inflightRequests, pendingRetries, cache, pendingWrites, pureVars, lyricsVars, metadataVars, converterVars>>

\* ------------------------------------------------------- translateMetadata
MetadataCallers == {"m1", "m2"}
MetadataLangs == {"ko", "en"}

\* A translated-metadata object: the one the persistent store holds from an
\* earlier session and the one the backend answers with.  NullResult is the
\* null translateMetadata resolves to.
EntryStored == <<"stored">>
EntryFetched == <<"fetched">>
NullResult == <<"null">>

\* `${finalTrackId}:${userLang}`
metadataCacheKey(trackId, userLang) == trackId \o <<":", userLang>>

\* The API key translateMetadata sends, "" where it returns null instead:
\* the first entry of a JSON array, else the trimmed item.
metadataApiKey(raw) ==
    IF raw.form = "null" \/ Trim(RawText(raw)) = "" THEN ""
    ELSE IF raw.form = "json" /\ Len(raw.items) > 0 THEN Trim(raw.items[1])
    ELSE Trim(RawText(raw))

\* `this._metadataCache.get(cacheKey) || null`
getMetadataFromCache(memory, trackId, userLang) ==
    IF Has(memory, metadataCacheKey(trackId, userLang))
    THEN memory[metadataCacheKey(trackId, userLang)]
    ELSE NullResult

\* A persistent hit that is returned without being kept in memory.
populateNever(memory, cacheKey, entry) == memory

\* `this._metadataCache.set(cacheKey, localCached)` on a persistent hit
populate(memory, cacheKey, entry) == Put(memory, cacheKey, entry)

\* What the metadata endpoint can answer.
MetadataResponse(throw, status, error, success, data) ==
    [throw |-> throw, status |-> status, error |-> error, success |-> success, data |-> data]
MetadataResponses ==
    { MetadataResponse(TRUE, 0, FALSE, FALSE, NullResult),
      MetadataResponse(FALSE, 500, FALSE, FALSE, NullResult),
      MetadataResponse(FALSE, 200, TRUE, FALSE, NullResult),
      MetadataResponse(FALSE, 200, FALSE, TRUE, EntryFetched),
      MetadataResponse(FALSE, 200, FALSE, TRUE, NullResult),
      MetadataResponse(FALSE, 200, FALSE, FALSE, EntryFetched) }

\* What the request resolves to: data.data of a success body, null for a
\* fetch that threw, a non-ok status, an error body or a body without data.
metadataResult(res) ==
    IF res.throw \/ ~(res.status \in 200..299) \/ res.error THEN NullResult
    ELSE IF res.success /\ res.data # NullResult THEN res.data
    ELSE NullResult

IdleMetadataCall ==
    [pc |-> "idle", definition |-> "first", finalTrackId |-> NoTrack, userLang |-> "",
     ignoreCache |-> FALSE, apiKeys |-> <<>>, i |-> 0, log |-> <<>>,
     joined |-> "", fetches |-> 0, source |-> "", out |-> NullResult]

MetadataKeyOf(r) == metadataCacheKey(r.finalTrackId, r.userLang)

metadataReturns(r, source, out) == [r EXCEPT !.pc = "done", !.source = source, !.out = out]

\* translateMetadata from its dedup check on: the promise registered for the
\* key is returned, or the request is issued and registered.
metadataDedupOrFetch(m, r) ==
    IF Has(metadataInflightRequests, MetadataKeyOf(r))
    THEN /\ metadataCall' =
              [metadataCall EXCEPT ![m] =
                  [r EXCEPT !.pc = "joined",
                            !.joined = metadataInflightRequests[MetadataKeyOf(r)]]]
         /\ UNCHANGED metadataInflightRequests
    ELSE /\ metadataCall' =
              [metadataCall EXCEPT ![m] =
                  [r EXCEPT !.pc = "fetching", !.fetches = @ + 1, !.i = 1]]
         /\ metadataInflightRequests' = Put(metadataInflightRequests, MetadataKeyOf(r), m)

\* translateMetadata up to its first suspension point.
TranslateMetadata(m, args, inp) ==
    /\ metadataCall[m].pc = "idle"
    /\ args.trackId # NoTrack => inp.playing = NoTrack
    /\ LET finalTrackId == IF args.trackId # NoTrack THEN args.trackId ELSE inp.playing
           r == [metadataCall[m] EXCEPT !.finalTrackId = finalTrackId,
                                        !.userLang = inp.lang,
                                        !.ignoreCache = args.ignoreCache]
       IN  IF ~args.titleAndArtist \/ finalTrackId = NoTrack \/ metadataApiKey(inp.raw) = ""
           THEN /\ metadataCall' = [metadataCall EXCEPT ![m] =
                                       metadataReturns(r, "invalid", NullResult)]
                /\ UNCHANGED metadataInflightRequests
           ELSE IF ~args.ignoreCache /\ Has(metadataCache, MetadataKeyOf(r))
           THEN /\ metadataCall' = [metadataCall EXCEPT ![m] =
                                       metadataReturns(r, "memory", metadataCache[MetadataKeyOf(r)])]
                /\ UNCHANGED metadataInflightRequests
           ELSE IF ~args.ignoreCache
           THEN /\ metadataCall' = [metadataCall EXCEPT ![m] = [r EXCEPT !.pc = "cacheRead"]]
                /\ UNCHANGED metadataInflightRequests
           ELSE metadataDedupOrFetch(m, r)
    /\ UNCHANGED <<metadataCache, metadataStore, metadataWrites, translatorVars, pureVars, lyricsVars, converterVars>>

\* `await LyricsCache.getMetadata(finalTrackId, userLang)` settles; a read
\* that throws is caught and counts as a miss.
MetadataCacheReadReturn(m, readFails) ==
    /\ metadataCall[m].pc = "cacheRead"
    /\ LET r == metadataCall[m]
           hit == ~readFails /\ Has(metadataStore, MetadataKeyOf(r))
       IN  IF hit
           THEN /\ metadataCache' =
                     populate(metadataCache, MetadataKeyOf(r), metadataStore[MetadataKeyOf(r)])
                /\ metadataCall' = [metadataCall EXCEPT ![m] =
                      metadataReturns(r, "store", metadataStore[MetadataKeyOf(r)])]
                /\ UNCHANGED metadataInflightRequests
           ELSE /\ metadataDedupOrFetch(m, r)
                /\ UNCHANGED metadataCache
    /\ UNCHANGED <<metadataStore, metadataWrites, translatorVars, pureVars, lyricsVars, converterVars>>

\* The fetch of the metadata request settles: a success is kept in memory
\* and written back in the background; `finally` deletes the key's entry.
MetadataFetchReturn(m, res) ==
    /\ metadataCall[m].pc = "fetching"
    /\ metadataCall[m].definition = "first"
    /\ LET r == metadataCall[m]
           out == metadataResult(res)
       IN  /\ metadataCall' = [metadataCall EXCEPT ![m] = metadataReturns(r, "net", out)]
           /\ metadataCache' =
                IF out # NullResult THEN Put(metadataCache, MetadataKeyOf(r), out)
                ELSE metadataCache
           /\ metadataWrites' =
                IF out # NullResult
                THEN metadataWrites \cup {[key |-> MetadataKeyOf(r), value |-> out]}
                ELSE metadataWrites
           /\ metadataInflightRequests' = Delete(metadataInflightRequests, MetadataKeyOf(r))
    /\ UNCHANGED <<metadataStore, translatorVars, pureVars, lyricsVars, converterVars>>

\* A caller that was returned the registered promise gets what it settled with.
MetadataAwaitReturn(m) ==
    /\ metadataCall[m].pc = "joined"
    /\ metadataCall[metadataCall[m].joined].pc = "done"
    /\ metadataCall' = [metadataCall EXCEPT ![m] =
          metadataReturns(@, "joined", metadataCall[metadataCall[m].joined].out)]
    /\ UNCHANGED <<metadataCache, metadataInflightRequests, metadataStore, metadataWrites,
                   translatorVars, pureVars, lyricsVars, converterVars>>

\* `LyricsCache.setMetadata(..).catch(() => { })` lands or fails.
MetadataWriteSettles(w, stored) ==
    /\ w \in metadataWrites
    /\ metadataWrites' = metadataWrites \ {w}
    /\ metadataStore' = IF stored THEN Put(metadataStore, w.key, w.value) ELSE metadataStore
    /\ UNCHANGED <<metadataCache, metadataInflightRequests, metadataCall,
                   translatorVars, pureVars, lyricsVars, converterVars>>

clearMetadataCache ==
    /\ metadataCache # EmptyMap \/ metadataInflightRequests # EmptyMap
    /\ metadataCache' = EmptyMap
    /\ metadataInflightRequests' = EmptyMap
    /\ UNCHANGED <<metadataStore, metadataWrites, metadataCall, translatorVars, pureVars, lyricsVars, converterVars>>

\* ------------------------------- translateMetadata, the second definition
\* A body as executeWithKey reads it: `error` and `message` are the texts of
\* these fields (NoMessage when absent), `data` is data.data when
\* data.success is set.
MetadataReply(throw, status, error, message, success, data) ==
    [throw |-> throw, status |-> status, error |-> error, message |-> message,
     success |-> success, data |-> data]

MetadataRepliesSecond ==
    { MetadataReply(TRUE, 0, NoMessage, NoMessage, FALSE, NullResult),
      MetadataReply(FALSE, 429, NoMessage, NoMessage, FALSE, NullResult),
      MetadataReply(FALSE, 403, NoMessage, NoMessage, FALSE, NullResult),
      MetadataReply(FALSE, 401, NoMessage, NoMessage, FALSE, NullResult),
      MetadataReply(FALSE, 200, <<"RESOURCE_EXHAUSTED">>, NoMessage, FALSE, NullResult),
      MetadataReply(FALSE, 200, <<"failed">>, <<"bad title">>, FALSE, NullResult),
      MetadataReply(FALSE, 200, NoMessage, NoMessage, TRUE, EntryFetched),
      MetadataReply(FALSE, 200, NoMessage, NoMessage, FALSE, EntryFetched) }

\* `${response.status} ${response.status === 429 ? 'Rate Limit' : 'Forbidden'}`
MsgMetadataStatus(status) ==
    <<ToString(status), " ", IF status = 429 THEN "Rate Limit" ELSE "Forbidden">>

\* executeWithKey(apiKey, keyIndex): what it returns (data.data or null) or
\* the error it throws.
executeWithKey(res) ==
    IF res.throw THEN Err("TypeError", MsgFetchFailed)
    ELSE IF res.status \in {429, 403} THEN Err("Error", MsgMetadataStatus(res.status))
    ELSE IF ~IsOk(res) THEN Err("Error", <<"HTTP ", ToString(res.status)>>)
    ELSE IF res.error # NoMessage
    THEN IF isRateLimitError(res.error)
         THEN Err("Error", <<"429", " ", "Rate Limit", ": ">> \o res.error)
         ELSE IF isForbiddenError(res.error)
         THEN Err("Error", <<"403", " ", "Forbidden", ": ">> \o res.error)
         ELSE Err("Error", IF res.message # NoMessage THEN res.message
                           ELSE MsgTranslationFailed)
    ELSE IF res.success /\ res.data # NullResult THEN Ok(res.data)
    ELSE Ok(NullResult)

\* The promise of runWithRotation rejects with the error of the key.
metadataCaughtRethrown(error) == <<"rejected">> \o error.message

\* The catch block of runWithRotation for an error that does not rotate, and
\* the end of the loop: `return null`.
metadataCaught(error) == NullResult

\* The test at the top of the loop body's continuation: the loop of
\* runWithRotation goes on to apiKeys[i + 1] after a rate-limit or forbidden
\* error unless the key was the last one, and also after a key that returned
\* no result, since only `if (result)` returns.
metadataContinues(result, i, apiKeys) ==
    /\ i < Len(apiKeys)
    /\ \/ ~result.ok /\ shouldRotate(result.message)
       \/ result.ok /\ result.value = NullResult

\* translateMetadata of the second definition up to its first suspension
\* point: every usable key of the stored item is kept for the rotation.
TranslateMetadataSecond(m, args, inp) ==
    /\ metadataCall[m].pc = "idle"
    /\ args.trackId # NoTrack => inp.playing = NoTrack
    /\ LET finalTrackId == IF args.trackId # NoTrack THEN args.trackId ELSE inp.playing
           apiKeys == IF inp.raw.form = "null" \/ Trim(RawText(inp.raw)) = "" THEN <<>>
                      ELSE parseApiKeys(inp.raw)
           r == [metadataCall[m] EXCEPT !.definition = "second",
                                        !.finalTrackId = finalTrackId,
                                        !.userLang = inp.lang,
                                        !.ignoreCache = args.ignoreCache,
                                        !.apiKeys = apiKeys]
       IN  IF ~args.titleAndArtist \/ finalTrackId = NoTrack \/ apiKeys = <<>>
           THEN /\ metadataCall' = [metadataCall EXCEPT ![m] =
                                       metadataReturns(r, "invalid", NullResult)]
                /\ UNCHANGED metadataInflightRequests
           ELSE IF ~args.ignoreCache /\ Has(metadataCache, MetadataKeyOf(r))
           THEN /\ metadataCall' = [metadataCall EXCEPT ![m] =
                                       metadataReturns(r, "memory", metadataCache[MetadataKeyOf(r)])]
                /\ UNCHANGED metadataInflightRequests
           ELSE IF ~args.ignoreCache
           THEN /\ metadataCall' = [metadataCall EXCEPT ![m] = [r EXCEPT !.pc = "cacheRead"]]
                /\ UNCHANGED metadataInflightRequests
           ELSE metadataDedupOrFetch(m, r)
    /\ UNCHANGED <<metadataCache, metadataStore, metadataWrites, translatorVars, pureVars, lyricsVars, converterVars>>

\* The fetch of executeWithKey(apiKeys[i], i) settles: runWithRotation keeps
\* a result and returns it, goes on to the next key, or returns null; when
\* it returns, `.finally` deletes the key's entry.
MetadataFetchReturnSecond(m, res) ==
    /\ metadataCall[m].pc = "fetching"
    /\ metadataCall[m].definition = "second"
    /\ LET result == executeWithKey(res)
           r == [metadataCall[m] EXCEPT !.log = Append(@,
                    [key |-> keyAt(metadataCall[m].apiKeys, metadataCall[m].i),
                     res |-> res, out |-> result])]
           out == IF result.ok THEN result.value ELSE metadataCaught(result)
       IN  IF metadataContinues(result, r.i, r.apiKeys)
           THEN /\ metadataCall' = [metadataCall EXCEPT ![m] =
                                       [r EXCEPT !.i = @ + 1, !.fetches = @ + 1]]
                /\ UNCHANGED <<metadataCache, metadataWrites, metadataInflightRequests>>
           ELSE /\ metadataCall' = [metadataCall EXCEPT ![m] = metadataReturns(r, "net", out)]
                /\ metadataCache' =
                     IF result.ok /\ result.value # NullResult
                     THEN Put(metadataCache, MetadataKeyOf(r), result.value)
                     ELSE metadataCache
                /\ metadataWrites' =
                     IF result.ok /\ result.value # NullResult
                     THEN metadataWrites \cup {[key |-> MetadataKeyOf(r), value |-> result.value]}
                     ELSE metadataWrites
                /\ metadataInflightRequests' = Delete(metadataInflightRequests, MetadataKeyOf(r))
    /\ UNCHANGED <<metadataStore, translatorVars, pureVars, lyricsVars, converterVars>>

MetadataIdle ==
    /\ metadataCache = EmptyMap
    /\ metadataInflightRequests = EmptyMap
    /\ metadataStore = EmptyMap
    /\ metadataWrites = {}
    /\ metadataCall = [m \in MetadataCallers |-> IdleMetadataCall]

\* ------------------------------------------------- the conversion helpers
\* The languages a Translator converts: "ja", "ko" and "zh" need a helper
\* library, "en" stands for the languages that need none.
ConversionLangs == {"ja", "ko", "zh", "en"}
NeedsLibrary(lang) == lang \in {"ja", "ko", "zh"}

\* What becomes of a language's scripts: they load and define their globals,
\* they load without the globals appearing in time, or the load fails.
LibraryOutcomes == {"loads", "noGlobals", "scriptError"}

ConversionCalls == {"v1", "v2"}
Processes == {"init"} \cup ConversionCalls

MsgScriptFailed(lang) == <<"Failed to load script: ", lang>>
MsgGlobalsTimeout(lang) == <<"Timeout waiting for globals: ", lang>>
MsgNotInitialized == <<"Korean converter not initialized">>

PromisePending == [state |-> "pending", error |-> NoOutcome]
PromiseResolved == [state |-> "resolved", error |-> NoOutcome]
PromiseRejected(error) == [state |-> "rejected", error |-> error]

IdleProcess == [pc |-> "idle", lang |-> "", existing |-> FALSE, out |-> NoOutcome]

\* The text a conversion gives back.
Converted(lang) == Ok(<<"converted", lang>>)

\* romajifyText / convertToRomaja / convertChinese once awaitFinished has
\* returned: the helper object is used as it is.
convert(lang, helpers) ==
    IF NeedsLibrary(lang) /\ ~helpers[lang]
    THEN IF lang = "ko" THEN Err("Error", MsgNotInitialized)
         ELSE Err("TypeError", <<"Cannot read properties of undefined">>)
    ELSE Converted(lang)

\* `if (this.initializationPromise) { await this.initializationPromise }`:
\* the constructor always sets the promise.
awaitsInitialization(promiseOfInit) == TRUE

\* A process ends: initializeAsync settles this.initializationPromise, a
\* conversion call converts or rejects with the error of awaitFinished.
settle(p, r, error) ==
    /\ conversion' =
         [conversion EXCEPT ![p] =
             [r EXCEPT !.pc = "done",
                       !.out = IF error # NoOutcome THEN error
                               ELSE IF p = "init" THEN Ok(Undefined)
                               ELSE convert(r.lang, helper')]]
    /\ initializationPromise' =
         IF p # "init" THEN initializationPromise
         ELSE IF error # NoOutcome THEN PromiseRejected(error)
         ELSE PromiseResolved

\* injectExternals(lang) followed by createTranslator(lang), up to the first
\* promise that does not settle at once.
injectExternals(p, r) ==
    IF ~NeedsLibrary(r.lang)
    THEN /\ finished' = [finished EXCEPT ![r.lang] = TRUE]
         /\ UNCHANGED <<scripts, helper>>
         /\ settle(p, r, NoOutcome)
    ELSE /\ conversion' = [conversion EXCEPT ![p] =
                              [r EXCEPT !.pc = "inject", !.existing = r.lang \in scripts]]
         /\ scripts' = scripts \cup {r.lang}
         /\ UNCHANGED <<finished, helper, initializationPromise>>

\* The promise of includeExternal settles: at once for a script element that
\* is already in the document, else on the element's load or error event.
\* Then createTranslator returns if the helper object is set, or waits for
\* the globals.
ScriptSettles(p) ==
    /\ conversion[p].pc = "inject"
    /\ LET r == conversion[p]
       IN  IF ~r.existing /\ library[r.lang] = "scriptError"
           THEN /\ UNCHANGED <<finished, helper>>
                /\ settle(p, r, Err("Error", MsgScriptFailed(r.lang)))
           ELSE IF helper[r.lang]
           THEN /\ UNCHANGED <<finished, helper>>
                /\ settle(p, r, NoOutcome)
           ELSE /\ conversion' = [conversion EXCEPT ![p] = [r EXCEPT !.pc = "wait"]]
                /\ UNCHANGED <<finished, helper, initializationPromise>>
    /\ UNCHANGED <<library, scripts, translatorVars, pureVars, lyricsVars, metadataVars>>

\* waitForGlobals resolves when the globals are there and rejects once the
\* time allowed has passed.
GlobalsWaitSettles(p) ==
    /\ conversion[p].pc = "wait"
    /\ LET r == conversion[p]
       IN  IF library[r.lang] # "loads"
           THEN /\ UNCHANGED <<finished, helper>>
                /\ settle(p, r, Err("Error", MsgGlobalsTimeout(r.lang)))
           ELSE IF r.lang = "ja"
           THEN /\ helper' = [helper EXCEPT !["ja"] = TRUE]
                /\ conversion' = [conversion EXCEPT ![p] = [r EXCEPT !.pc = "kuroshiroInit"]]
                /\ UNCHANGED <<finished, initializationPromise>>
           ELSE /\ helper' = [helper EXCEPT ![r.lang] = TRUE]
                /\ finished' = [finished EXCEPT ![r.lang] = TRUE]
                /\ settle(p, r, NoOutcome)
    /\ UNCHANGED <<library, scripts, translatorVars, pureVars, lyricsVars, metadataVars>>

\* `await this.kuroshiro.init(..)` returns.
KuroshiroInitSettles(p) ==
    /\ conversion[p].pc = "kuroshiroInit"
    /\ finished' = [finished EXCEPT !["ja"] = TRUE]
    /\ UNCHANGED <<library, scripts, helper, translatorVars, pureVars, lyricsVars, metadataVars>>
    /\ settle(p, conversion[p], NoOutcome)

\* romajifyText ("ja"), convertToRomaja ("ko"), convertChinese ("zh") or a
\* conversion that needs no helper is called: awaitFinished(lang) starts.
Convert(p, lang) ==
    /\ p \in ConversionCalls
    /\ conversion[p].pc = "idle"
    /\ LET r == [conversion[p] EXCEPT !.lang = lang]
       IN  IF awaitsInitialization(initializationPromise)
           THEN /\ conversion' = [conversion EXCEPT ![p] = [r EXCEPT !.pc = "awaitInit"]]
                /\ UNCHANGED <<scripts, finished, helper, initializationPromise>>
           ELSE IF ~finished[lang] THEN injectExternals(p, r)
           ELSE /\ UNCHANGED <<scripts, finished, helper>>
                /\ settle(p, r, NoOutcome)
    /\ UNCHANGED <<library, translatorVars, pureVars, lyricsVars, metadataVars>>

\* `await this.initializationPromise` returns or throws in awaitFinished.
InitializationAwaited(p) ==
    /\ conversion[p].pc = "awaitInit"
    /\ initializationPromise.state # "pending"
    /\ LET r == conversion[p]
       IN  IF initializationPromise.state = "rejected"
           THEN /\ UNCHANGED <<scripts, finished, helper>>
                /\ settle(p, r, initializationPromise.error)
           ELSE IF ~finished[r.lang] THEN injectExternals(p, r)
           ELSE /\ UNCHANGED <<scripts, finished, helper>>
                /\ settle(p, r, NoOutcome)
    /\ UNCHANGED <<library, translatorVars, pureVars, lyricsVars, metadataVars>>

\* No Translator has been constructed.
ConverterIdle ==
    /\ library = [l \in {"ja", "ko", "zh"} |-> "loads"]
    /\ scripts = {}
    /\ finished = [l \in ConversionLangs |-> FALSE]
    /\ helper = [l \in {"ja", "ko", "zh"} |-> FALSE]
    /\ initializationPromise = PromisePending
    /\ conversion = [p \in Processes |-> IdleProcess]

\* ---------------------------------------------- ProviderIvLyrics.findLyrics
LyricsCallers == {"f1", "f2"}

\* The lyrics the store holds from an earlier session, and what the backend
\* can answer: `throw` for a fetch that rejects, else a status and a body
\* that is JSON or not, with or without an error field.
LyricsStored == <<"stored lyrics">>
LyricsReply(throw, status, parse, error, lyrics) ==
    [throw |-> throw, status |-> status, parse |-> parse, error |-> error, lyrics |-> lyrics]
NoLyricsReply == LyricsReply(FALSE, 0, FALSE, FALSE, <<>>)
LyricsReplies ==
    { LyricsReply(TRUE, 0, FALSE, FALSE, <<>>),
      LyricsReply(FALSE, 200, TRUE, FALSE, <<"lyrics">>),
      LyricsReply(FALSE, 200, TRUE, TRUE, <<>>),
      LyricsReply(FALSE, 200, FALSE, FALSE, <<>>),
      LyricsReply(FALSE, 404, TRUE, TRUE, <<>>),
      LyricsReply(FALSE, 204, TRUE, FALSE, <<"lyrics">>) }

\* What findLyrics gives back: a response, an error object, or a rejection.
LyricsFound(response) == [kind |-> "response", value |-> response]
LyricsError(error) == [kind |-> "error", value |-> error]
LyricsThrown == [kind |-> "thrown", value |-> MsgFetchFailed]
NoLyricsResult == [kind |-> "none", value |-> <<>>]

IdleLyricsCall ==
    [pc |-> "idle", trackId |-> NoTrack, seenBefore |-> NoTrack, seenAfter |-> NoTrack,
     fetched |-> FALSE, res |-> NoLyricsReply, wrote |-> FALSE, out |-> NoLyricsResult]

lyricsReturns(r, out) == [r EXCEPT !.pc = "done", !.out = out]

\* A check that never sees a change of track.
trackChangedNever(current, trackId) == FALSE

\* `currentTrack && currentTrack !== trackId`
trackChanged(current, trackId) == current # NoTrack /\ current # trackId

\* findLyrics up to `await LyricsCache.getLyrics(trackId)`: the track id is
\* taken from the URI and made ApiTracker's current track.
FindLyrics(f, trackId) ==
    /\ lyricsCall[f].pc = "idle"
    /\ IF trackId = NoTrack
       THEN /\ lyricsCall' = [lyricsCall EXCEPT ![f] =
                                 lyricsReturns(@, LyricsError(<<"Invalid track URI">>))]
            /\ UNCHANGED currentTrack
       ELSE /\ lyricsCall' = [lyricsCall EXCEPT ![f] =
                                 [@ EXCEPT !.pc = "cacheRead", !.trackId = trackId]]
            /\ currentTrack' = trackId
    /\ UNCHANGED <<lyricsCache, lyricsWrites, translatorVars, pureVars, metadataVars, converterVars>>

\* The cache read settles: a hit is returned; after a miss or a failed read
\* the track is checked and the request is sent.
LyricsCacheReadReturn(f, readFails) ==
    /\ lyricsCall[f].pc = "cacheRead"
    /\ LET r == lyricsCall[f]
       IN  lyricsCall' = [lyricsCall EXCEPT ![f] =
              IF ~readFails /\ Has(lyricsCache, r.trackId)
              THEN lyricsReturns(r, LyricsFound(lyricsCache[r.trackId]))
              ELSE IF trackChanged(currentTrack, r.trackId)
              THEN lyricsReturns([r EXCEPT !.seenBefore = currentTrack],
                                 LyricsError(<<"Track changed during request">>))
              ELSE [r EXCEPT !.pc = "fetching", !.seenBefore = currentTrack]]
    /\ UNCHANGED <<lyricsCache, lyricsWrites, currentTrack, translatorVars, pureVars,
                   metadataVars, converterVars>>

\* `await fetch(baseURL, ..)` settles: a rejection is rethrown; else the
\* track is checked again, then the status, and the body is read.
LyricsFetchReturn(f, res) ==
    /\ lyricsCall[f].pc = "fetching"
    /\ LET r == [lyricsCall[f] EXCEPT !.fetched = TRUE, !.res = res]
       IN  lyricsCall' = [lyricsCall EXCEPT ![f] =
              IF res.throw THEN lyricsReturns(r, LyricsThrown)
              ELSE IF trackChanged(currentTrack, r.trackId)
              THEN lyricsReturns([r EXCEPT !.seenAfter = currentTrack],
                                 LyricsError(<<"Track changed after request">>))
              ELSE IF res.status # 200
              THEN lyricsReturns([r EXCEPT !.seenAfter = currentTrack],
                                 LyricsError(<<"Request error: Track wasn't found">>))
              ELSE [r EXCEPT !.pc = "reading", !.seenAfter = currentTrack]]
    /\ UNCHANGED <<lyricsCache, lyricsWrites, currentTrack, translatorVars, pureVars,
                   metadataVars, converterVars>>

\* `await body.json()` settles: a body with an error field gives an error
\* object; any other is written back in the background and returned.
LyricsBodyRead(f) ==
    /\ lyricsCall[f].pc = "reading"
    /\ LET r == lyricsCall[f]
       IN  IF ~r.res.parse
           THEN /\ lyricsCall' = [lyricsCall EXCEPT ![f] = lyricsReturns(r, LyricsThrown)]
                /\ UNCHANGED lyricsWrites
           ELSE IF r.res.error
           THEN /\ lyricsCall' = [lyricsCall EXCEPT ![f] =
                                     lyricsReturns(r, LyricsError(<<"response.error">>))]
                /\ UNCHANGED lyricsWrites
           ELSE /\ lyricsCall' = [lyricsCall EXCEPT ![f] =
                                     lyricsReturns([r EXCEPT !.wrote = TRUE],
                                                   LyricsFound(r.res.lyrics))]
                /\ lyricsWrites' = lyricsWrites \cup {[key |-> r.trackId, value |-> r.res.lyrics]}
    /\ UNCHANGED <<lyricsCache, currentTrack, translatorVars, pureVars, metadataVars, converterVars>>

\* `LyricsCache.setLyrics(trackId, response).catch(() => { })` lands or fails.
LyricsWriteSettles(w, stored) ==
    /\ w \in lyricsWrites
    /\ lyricsWrites' = lyricsWrites \ {w}
    /\ lyricsCache' = IF stored THEN Put(lyricsCache, w.key, w.value) ELSE lyricsCache
    /\ UNCHANGED <<currentTrack, lyricsCall, translatorVars, pureVars, metadataVars, converterVars>>

\* The player moves on and ApiTracker is told the new track.
TrackChanges(trackId) ==
    /\ trackId # currentTrack
    /\ currentTrack' = trackId
    /\ UNCHANGED <<lyricsCache, lyricsWrites, lyricsCall, translatorVars, pureVars,
                   metadataVars, converterVars>>

LyricsIdle ==
    /\ lyricsCache = EmptyMap
    /\ lyricsWrites = {}
    /\ currentTrack = NoTrack
    /\ lyricsCall = [f \in LyricsCallers |-> IdleLyricsCall]

Init ==
    /\ caller = [c \in Callers |-> IdleCaller]
    /\ promise = [p \in Callers \X Providers |-> Unused]
    /\ inflightRequests = EmptyMap
    /\ pendingRetries = EmptyMap
    /\ cache = EmptyMap
    /\ pendingWrites = {}
    /\ apiKeyCache = [perplexity |-> RawNull, gemini |-> RawNull, fresh |-> FALSE]
    /\ MetadataIdle
    /\ ConverterIdle
    /\ LyricsIdle
    /\ sanitizer = NoRun
    /\ karaoke = NoRun

\* One step of the system, for the callers, arguments, stored key items
\* and provider responses given.
Step(callers, arguments, flagValues, inputs, responses) ==
    \/ \E c \in {d \in callers : caller[d].pc = "idle"} :
          \E args \in arguments, rp \in flagValues, rg \in flagValues, inp \in inputs :
             CallTranslationAPI(c, args, rp, rg, inp)
    \/ \E c \in {d \in callers : caller[d].pc = "idle"} :
          \E prov \in Providers, args \in arguments, inp \in inputs :
             CallDirect(c, prov, args, inp)
    \/ \E c \in callers, readFails \in BOOLEAN : CacheReadReturn(c, readFails)
    \/ \E c \in {d \in callers : caller[d].pc = "fetching"} :
          \E res \in responses : FetchReturn(c, res, inputs)
    \/ \E c \in callers : AwaitReturn(c, inputs)
    \/ \E w \in pendingWrites, stored \in BOOLEAN : WriteSettles(w, stored)
    \/ \E t \in Tracks \cup {NoTrack} : clearInflightRequests(t)
    \/ clearAllInflightRequests
    \/ ApiKeyCacheExpires

\* Concurrent callers: two invocations with well-formed arguments, both
\* providers configured with a pool of ConcKeys keys, and one response of each
\* class (success, rate limit, server error).
ConcArguments ==
    [trackId : Tracks, text : {TRUE}, wantSmartPhonetic : {FALSE}, ignoreCache : BOOLEAN]
ConcInputs == [raw : {RawArray(KeyPool(ConcKeys))}, playing : {NoTrack}, lang : Langs]
ConcFlagValues == {RawBare}
ConcResponses ==
    { Response("", 200, Body(TRUE, NoMessage, LinesT, LinesP, Undefined, ContentA)),
      Response("", 429, EmptyBody),
      Response("", 500, EmptyBody) }

Next == Step(Callers, ConcArguments, ConcFlagValues, ConcInputs, ConcResponses)

Spec == Init /\ [][Next]_vars

\* One caller alone, with every kind of argument, stored key item and
\* provider response.
OneArguments ==
    [trackId : {<<"a">>, NoTrack}, text : BOOLEAN,
     wantSmartPhonetic : BOOLEAN, ignoreCache : BOOLEAN]
OneInputs == [raw : RawValues, playing : {<<"a">>, NoTrack}, lang : Langs]

NextOne ==
    \/ \E c \in {d \in {"c1"} : caller[d].pc = "idle"} :
          \E args \in OneArguments, rp \in FlagRawValues, rg \in FlagRawValues, inp \in OneInputs :
             CallTranslationAPI(c, args, rp, rg, inp)
    \/ \E c \in {d \in {"c1"} : caller[d].pc = "idle"} :
          \E prov \in Providers, args \in OneArguments, inp \in OneInputs :
             CallDirect(c, prov, args, inp)
    \/ \E readFails \in BOOLEAN : CacheReadReturn("c1", readFails)
    \/ \E c \in {d \in {"c1"} : caller[d].pc = "fetching"} :
          \E res \in Responses(caller[c].prov) : FetchReturn(c, res, OneInputs)
    \/ \E w \in pendingWrites, stored \in BOOLEAN : WriteSettles(w, stored)

SpecOne == Init /\ [][NextOne]_vars

\* One caller of the second callPerplexity, with pools of every size.
SecondArguments ==
    [trackId : {<<"a">>}, text : {TRUE}, wantSmartPhonetic : BOOLEAN, ignoreCache : BOOLEAN]
SecondInputs ==
    [raw : {RawArray(KeyPool(n)) : n \in 0..MaxKeys}, playing : {NoTrack}, lang : {"ko"}]

NextSecond ==
    \/ \E args \in SecondArguments, inp \in SecondInputs :
          CallPerplexitySecond("c1", args, inp)
    \/ \E readFails \in BOOLEAN : CacheReadReturn("c1", readFails)
    \/ \E reply \in RepliesSecond : FetchReturnSecond("c1", reply)
    \/ \E w \in pendingWrites, stored \in BOOLEAN : WriteSettles(w, stored)

SpecSecond == Init /\ [][NextSecond]_vars

\* One caller of the second callGemini, with pools of every size.
NextGeminiSecond ==
    \/ \E args \in SecondArguments, inp \in SecondInputs :
          CallGeminiSecond("c1", args, inp)
    \/ \E readFails \in BOOLEAN : CacheReadReturn("c1", readFails)
    \/ \E reply \in RepliesGeminiSecond : FetchReturnGeminiSecond("c1", reply)
    \/ \E w \in pendingWrites, stored \in BOOLEAN : WriteSettles(w, stored)

SpecGeminiSecond == Init /\ [][NextGeminiSecond]_vars

\* ----------------------------------------------- the cleaning on its own
\* Lines a provider may answer with.
SampleLines ==
    { <<>>, <<" ">>, <<"L", "L">>, <<" ", "L">>, <<"instead">>, <<"limitations">>,
      <<"more importantly", " ", "L">>, <<"H", "H", "H", "H", "L", "L">>,
      <<"P", " ", "L">>, <<"L", "[1]">>, <<"-", " ", "L">>,
      <<"It is", " ", "english100">>, <<"To complete", " ", "lyric100">>,
      <<"english100", " ", "L">>, <<"perplexity", " ", "lyric100">>,
      <<"access to", " ", "lyric100">>, <<"i appreciate", " ", "perplexity">>,
      <<"limitations", " ", "lyric100">>,
      <<"H", "H", "L", "L", "L", "L">>, <<"H", "H", "H">>, <<"K", "K", "L", "L", "L", "L">> }

SampleTexts == UNION {[1..n -> SampleLines] : n \in 1..MaxLines}

InitSanitizer ==
    /\ caller = [c \in Callers |-> IdleCaller]
    /\ promise = [p \in Callers \X Providers |-> Unused]
    /\ inflightRequests = EmptyMap
    /\ pendingRetries = EmptyMap
    /\ cache = EmptyMap
    /\ pendingWrites = {}
    /\ apiKeyCache = [perplexity |-> RawNull, gemini |-> RawNull, fresh |-> FALSE]
    /\ MetadataIdle
    /\ ConverterIdle
    /\ LyricsIdle
    /\ karaoke = NoRun
    /\ sanitizer \in [pc : {"ready"}, definition : {"first", "second"},
                       content : SampleTexts, wantSmartPhonetic : BOOLEAN,
                       out : {NoOutcome}]

\* The response text goes through the cleaning of one of the two definitions
\* of callPerplexity.
Sanitize ==
    /\ sanitizer.pc = "ready"
    /\ sanitizer' =
          [sanitizer EXCEPT
             !.pc = "done",
             !.out = IF sanitizer.definition = "first"
                     THEN Ok(cleanResponse(sanitizer.content, sanitizer.wantSmartPhonetic))
                     ELSE cleanResponseSecond(sanitizer.content, sanitizer.wantSmartPhonetic)]
    /\ UNCHANGED <<caller, promise, inflightRequests, pendingRetries, cache, pendingWrites, apiKeyCache,
                   karaoke, metadataVars, converterVars, lyricsVars>>

NextSanitizer == Sanitize

SpecSanitizer == InitSanitizer /\ [][NextSanitizer]_vars

\* ------------------------------------------------------------- getKaraoke
\* Times of the payload (line.ts, line.te, syllable.o) are seconds with a
\* fraction; the model counts them in half milliseconds, so that
\* `Math.round(t * 1000)` has something to round.
Round(halfMs) == (halfMs + 1) \div 2

Syllable(text, startTime, endTime) ==
    [text |-> text, startTime |-> startTime, endTime |-> endTime]

\* `Math.round((line.ts + syllable.o) * 1000)`
syllableStartTime(line, index) == Round(line.ts + line.l[index].o)

\* Every syllable lasts to the end of the line.
syllableEndTimeLineEnd(line, index) == Round(line.te)

\* `nextSyllable ? Math.round((line.ts + nextSyllable.o) * 1000) : lineEndTime`
syllableEndTime(line, index) ==
    IF index < Len(line.l) THEN Round(line.ts + line.l[index + 1].o) ELSE Round(line.te)

\* `gap > 500 && currentGroup.length > 0`
isNewVocalGroup(gap, currentGroup) == gap > 500 /\ currentGroup # <<>>

\* vocalGroups, currentGroup and lastEndTime after line.l.forEach has visited
\* the first n syllables.
RECURSIVE forEachSyllable(_, _)
forEachSyllable(line, n) ==
    IF n = 0 THEN [vocalGroups |-> <<>>, currentGroup |-> <<>>, lastEndTime |-> 0]
    ELSE LET before == forEachSyllable(line, n - 1)
             gap == syllableStartTime(line, n) - before.lastEndTime
             new == isNewVocalGroup(gap, before.currentGroup)
         IN  [vocalGroups |-> IF new THEN Append(before.vocalGroups, before.currentGroup)
                              ELSE before.vocalGroups,
              currentGroup |-> Append(IF new THEN <<>> ELSE before.currentGroup,
                                      Syllable(line.l[n].c, syllableStartTime(line, n),
                                               syllableEndTime(line, n))),
              lastEndTime |-> syllableEndTime(line, n)]

vocalGroupsOf(line) ==
    LET walked == forEachSyllable(line, Len(line.l))
    IN  IF walked.currentGroup # <<>> THEN Append(walked.vocalGroups, walked.currentGroup)
        ELSE walked.vocalGroups

\* A vocal part: a group with the times of its first and last syllable.
VocalPart(group) ==
    [startTime |-> group[1].startTime, endTime |-> group[Len(group)].endTime,
     syllables |-> group]
NoVocalPart == [startTime |-> 0, endTime |-> 0, syllables |-> <<>>]

\* An output line; `keys` holds which of the properties `syllables` and
\* `vocals` the object has.
KaraokeLine(line, keys, syllables, lead, background) ==
    [startTime |-> Round(line.ts), endTime |-> Round(line.te), text |-> line.x,
     keys |-> keys, syllables |-> syllables, lead |-> lead, background |-> background]

\* The synthetic syllable without the line's times.
wholeLineUntimed(line) == <<Syllable(line.x, 0, 0)>>

\* `[{ text: line.x, startTime: lineStartTime, endTime: lineEndTime }]`
wholeLine(line) == <<Syllable(line.x, Round(line.ts), Round(line.te))>>

\* Every line comes out with a vocals object, whatever the number of groups.
emitLineAlwaysVocals(line, vocalGroups) ==
    KaraokeLine(line, {"vocals"}, <<>>, VocalPart(vocalGroups[1]),
                [n \in 1..(Len(vocalGroups) - 1) |-> VocalPart(vocalGroups[n + 1])])

\* The return of the map callback for a line with syllables.
emitLine(line, vocalGroups) ==
    IF Len(vocalGroups) > 1
    THEN KaraokeLine(line, {"vocals"}, <<>>, VocalPart(vocalGroups[1]),
                     [n \in 1..(Len(vocalGroups) - 1) |-> VocalPart(vocalGroups[n + 1])])
    ELSE KaraokeLine(line, {"syllables"},
                     IF vocalGroups # <<>> THEN vocalGroups[1] ELSE wholeLine(line),
                     NoVocalPart, <<>>)

\* The map callback of getKaraoke.
karaokeLine(line) ==
    IF line.l = <<>>
    THEN KaraokeLine(line, {"syllables"}, wholeLine(line), NoVocalPart, <<>>)
    ELSE emitLine(line, vocalGroupsOf(line))

Null == [null |-> TRUE, lines |-> <<>>]

getKaraoke(body) ==
    IF body.error THEN Null
    ELSE IF body.lyrics_type = "word_by_word"
    THEN [null |-> FALSE, lines |-> [n \in DOMAIN body.lyrics |-> karaokeLine(body.lyrics[n])]]
    ELSE Null

\* Payloads: offsets within a line grow; a line lasts two seconds.
KaraokeOffsets == {0, 400, 901, 2101, 2800}
SampleOffsets ==
    UNION { {o \in [1..n -> KaraokeOffsets] : \A j \in 1..(n - 1) : o[j] < o[j + 1]} :
              n \in 0..MaxSyllables }
SampleKaraokeLines ==
    { [ts |-> ts, te |-> ts + 4000, x |-> "x",
       l |-> [n \in DOMAIN o |-> [c |-> n, o |-> o[n]]]] :
          ts \in {0, 2001}, o \in SampleOffsets }
SampleBodies ==
    [error : BOOLEAN, lyrics_type : {"word_by_word", "synced"},
     lyrics : UNION {[1..n -> SampleKaraokeLines] : n \in 1..MaxKaraokeLines}]

InitKaraoke ==
    /\ caller = [c \in Callers |-> IdleCaller]
    /\ promise = [p \in Callers \X Providers |-> Unused]
    /\ inflightRequests = EmptyMap
    /\ pendingRetries = EmptyMap
    /\ cache = EmptyMap
    /\ pendingWrites = {}
    /\ apiKeyCache = [perplexity |-> RawNull, gemini |-> RawNull, fresh |-> FALSE]
    /\ MetadataIdle
    /\ ConverterIdle
    /\ LyricsIdle
    /\ sanitizer = NoRun
    /\ karaoke \in [pc : {"ready"}, body : SampleBodies, out : {Null}]

\* getKaraoke is applied to the body.
GetKaraoke ==
    /\ karaoke.pc = "ready"
    /\ karaoke' = [karaoke EXCEPT !.pc = "done", !.out = getKaraoke(karaoke.body)]
    /\ UNCHANGED <<caller, promise, inflightRequests, pendingRetries, cache, pendingWrites, apiKeyCache,
                   sanitizer, metadataVars, converterVars, lyricsVars>>

NextKaraoke == GetKaraoke

SpecKaraoke == InitKaraoke /\ [][NextKaraoke]_vars

\* ------------------------------------------ translateMetadata on its own
\* Two invocations of translateMetadata on a page whose memory cache starts
\* empty, over a persistent store that may hold entries of earlier sessions.
MetadataArguments == [trackId : Tracks \cup {NoTrack}, titleAndArtist : BOOLEAN,
                      ignoreCache : BOOLEAN]
MetadataInputs ==
    [raw : {RawNull, RawBare, RawArray(<<"", "k1">>), RawArray(<<>>)},
     playing : {<<"a">>, NoTrack}, lang : MetadataLangs]
MetadataStores ==
    { EmptyMap,
      [k \in {metadataCacheKey(<<"a">>, "ko")} |-> EntryStored],
      [k \in {metadataCacheKey(t, l) : t \in Tracks, l \in MetadataLangs} |-> EntryStored] }

InitMetadata ==
    /\ caller = [c \in Callers |-> IdleCaller]
    /\ promise = [p \in Callers \X Providers |-> Unused]
    /\ inflightRequests = EmptyMap
    /\ pendingRetries = EmptyMap
    /\ cache = EmptyMap
    /\ pendingWrites = {}
    /\ apiKeyCache = [perplexity |-> RawNull, gemini |-> RawNull, fresh |-> FALSE]
    /\ sanitizer = NoRun
    /\ karaoke = NoRun
    /\ metadataCache = EmptyMap
    /\ metadataInflightRequests = EmptyMap
    /\ metadataStore \in MetadataStores
    /\ metadataWrites = {}
    /\ metadataCall = [m \in MetadataCallers |-> IdleMetadataCall]
    /\ ConverterIdle
    /\ LyricsIdle

NextMetadata ==
    \/ \E m \in MetadataCallers, args \in MetadataArguments, inp \in MetadataInputs :
          TranslateMetadata(m, args, inp)
    \/ \E m \in MetadataCallers, readFails \in BOOLEAN : MetadataCacheReadReturn(m, readFails)
    \/ \E m \in MetadataCallers, res \in MetadataResponses : MetadataFetchReturn(m, res)
    \/ \E m \in MetadataCallers : MetadataAwaitReturn(m)
    \/ \E w \in metadataWrites, stored \in BOOLEAN : MetadataWriteSettles(w, stored)
    \/ clearMetadataCache

SpecMetadata == InitMetadata /\ [][NextMetadata]_vars

\* Two invocations of the second translateMetadata, the stored item holding
\* up to MaxKeys keys.
MetadataInputsSecond ==
    [raw : {RawNull, RawBlank, RawArray(<<"", "k1">>)}
              \cup {RawArray(KeyPool(n)) : n \in 0..MaxKeys},
     playing : {<<"a">>, NoTrack}, lang : {"ko"}]
MetadataArgumentsSecond == [trackId : {<<"a">>, NoTrack}, titleAndArtist : BOOLEAN,
                            ignoreCache : BOOLEAN]

NextMetadataSecond ==
    \/ \E m \in MetadataCallers, args \in MetadataArgumentsSecond, inp \in MetadataInputsSecond :
          TranslateMetadataSecond(m, args, inp)
    \/ \E m \in MetadataCallers, readFails \in BOOLEAN : MetadataCacheReadReturn(m, readFails)
    \/ \E m \in MetadataCallers, res \in MetadataRepliesSecond : MetadataFetchReturnSecond(m, res)
    \/ \E m \in MetadataCallers : MetadataAwaitReturn(m)
    \/ \E w \in metadataWrites, stored \in BOOLEAN : MetadataWriteSettles(w, stored)
    \/ clearMetadataCache

\* The persistent store is empty or holds the track's entry of an earlier
\* session.
InitMetadataSecond ==
    /\ caller = [c \in Callers |-> IdleCaller]
    /\ promise = [p \in Callers \X Providers |-> Unused]
    /\ inflightRequests = EmptyMap
    /\ pendingRetries = EmptyMap
    /\ cache = EmptyMap
    /\ pendingWrites = {}
    /\ apiKeyCache = [perplexity |-> RawNull, gemini |-> RawNull, fresh |-> FALSE]
    /\ sanitizer = NoRun
    /\ karaoke = NoRun
    /\ metadataCache = EmptyMap
    /\ metadataInflightRequests = EmptyMap
    /\ metadataStore \in {EmptyMap, [k \in {metadataCacheKey(<<"a">>, "ko")} |-> EntryStored]}
    /\ metadataWrites = {}
    /\ metadataCall = [m \in MetadataCallers |-> IdleMetadataCall]
    /\ ConverterIdle
    /\ LyricsIdle

SpecMetadataSecond == InitMetadataSecond /\ [][NextMetadataSecond]_vars

\* ------------------------------------------------ one Translator instance
\* `new Translator(lang)`: the constructor has started initializeAsync(lang),
\* which has run to its first promise that does not settle at once.
InitConverter ==
    /\ caller = [c \in Callers |-> IdleCaller]
    /\ promise = [p \in Callers \X Providers |-> Unused]
    /\ inflightRequests = EmptyMap
    /\ pendingRetries = EmptyMap
    /\ cache = EmptyMap
    /\ pendingWrites = {}
    /\ apiKeyCache = [perplexity |-> RawNull, gemini |-> RawNull, fresh |-> FALSE]
    /\ sanitizer = NoRun
    /\ karaoke = NoRun
    /\ MetadataIdle
    /\ LyricsIdle
    /\ library \in [{"ja", "ko", "zh"} -> LibraryOutcomes]
    /\ helper = [l \in {"ja", "ko", "zh"} |-> FALSE]
    /\ \E lang \in ConversionLangs :
          IF NeedsLibrary(lang)
          THEN /\ scripts = {lang}
               /\ finished = [l \in ConversionLangs |-> FALSE]
               /\ initializationPromise = PromisePending
               /\ conversion = [p \in Processes |->
                     IF p = "init" THEN [IdleProcess EXCEPT !.pc = "inject", !.lang = lang]
                     ELSE IdleProcess]
          ELSE /\ scripts = {}
               /\ finished = [l \in ConversionLangs |-> l = lang]
               /\ initializationPromise = PromiseResolved
               /\ conversion = [p \in Processes |->
                     IF p = "init"
                     THEN [IdleProcess EXCEPT !.pc = "done", !.lang = lang, !.out = Ok(Undefined)]
                     ELSE IdleProcess]

NextConverter ==
    \/ \E p \in ConversionCalls, lang \in ConversionLangs : Convert(p, lang)
    \/ \E p \in ConversionCalls : InitializationAwaited(p)
    \/ \E p \in Processes : ScriptSettles(p)
    \/ \E p \in Processes : GlobalsWaitSettles(p)
    \/ \E p \in Processes : KuroshiroInitSettles(p)

SpecConverter == InitConverter /\ [][NextConverter]_vars

\* ------------------------------------------------- findLyrics on its own
\* Two invocations of findLyrics while the player moves between two tracks;
\* the store may hold the lyrics of track "a" from an earlier session.
InitLyrics ==
    /\ caller = [c \in Callers |-> IdleCaller]
    /\ promise = [p \in Callers \X Providers |-> Unused]
    /\ inflightRequests = EmptyMap
    /\ pendingRetries = EmptyMap
    /\ cache = EmptyMap
    /\ pendingWrites = {}
    /\ apiKeyCache = [perplexity |-> RawNull, gemini |-> RawNull, fresh |-> FALSE]
    /\ sanitizer = NoRun
    /\ karaoke = NoRun
    /\ MetadataIdle
    /\ ConverterIdle
    /\ lyricsCache \in {EmptyMap, [k \in {<<"a">>} |-> LyricsStored]}
    /\ lyricsWrites = {}
    /\ currentTrack = NoTrack
    /\ lyricsCall = [f \in LyricsCallers |-> IdleLyricsCall]

NextLyrics ==
    \/ \E f \in LyricsCallers, t \in Tracks \cup {NoTrack} : FindLyrics(f, t)
    \/ \E f \in LyricsCallers, readFails \in BOOLEAN : LyricsCacheReadReturn(f, readFails)
    \/ \E f \in LyricsCallers, res \in LyricsReplies : LyricsFetchReturn(f, res)
    \/ \E f \in LyricsCallers : LyricsBodyRead(f)
    \/ \E w \in lyricsWrites, stored \in BOOLEAN : LyricsWriteSettles(w, stored)
    \/ \E t \in Tracks : TrackChanges(t)

SpecLyrics == InitLyrics /\ [][NextLyrics]_vars

\* ================================================================== claims
NetEvents(r, prov) == {n \in DOMAIN r.log : r.log[n].ev = "net" /\ r.log[n].prov = prov}
NetCalls(r) == Cardinality({n \in DOMAIN r.log : r.log[n].ev = "net"})
EventsOf(r, ev) == {n \in DOMAIN r.log : r.log[n].ev = ev}
PromisesOf(c) == {<<c, prov>> : prov \in Providers}
RegisteredPromises == {inflightRequests[k] : k \in DOMAIN inflightRequests}

\* C1: a call of callGemini / callPerplexity that found an in-flight entry
\* for its request key makes no network request of its own in that call, and
\* once it has returned, its outcome is the outcome of the registered promise,
\* which is also what the caller that registered it got.
C1_SharedOutcome ==
    \A c \in Callers, prov \in Providers :
        LET r == caller[c]
            p == r.joined[prov]
        IN  p # NoPromise =>
              /\ ~r.ignoreCache
              /\ NetEvents(r, prov) = {}
              /\ r.returned[prov] # NoOutcome =>
                    /\ promise[p].state = "settled"
                    /\ r.returned[prov] = promise[p].result
                    /\ caller[p[1]].returned[p[2]] = promise[p].result

\* A caller was handed a promise in flight and has got its failure.
C1_Witness ==
    \E c \in Callers, prov \in Providers :
        /\ caller[c].joined[prov] # NoPromise
        /\ caller[c].returned[prov] # NoOutcome
        /\ ~caller[c].returned[prov].ok
        /\ caller[c].joined[prov][1] # c

\* Two calls of callTranslationAPI for the same track and kind, without
\* ignoreCache, the second made while the first is still at its cache read.
InSuccession(c1, c2) ==
    /\ c1 # c2
    /\ caller[c1].entry = "api" /\ caller[c2].entry = "api"
    /\ ~caller[c1].ignoreCache /\ ~caller[c2].ignoreCache
    /\ caller[c1].trackId = caller[c2].trackId
    /\ caller[c1].wantSmartPhonetic = caller[c2].wantSmartPhonetic
    /\ c1 \in caller[c2].after

\* No provider call of the caller has failed, and its request in flight, if
\* any, is still the one registered for its key.
Undisturbed(c) ==
    LET r == caller[c]
    IN  /\ \A prov \in Providers : r.returned[prov] = NoOutcome \/ r.returned[prov].ok
        /\ r.i <= 1
        /\ r.pc = "fetching" =>
              /\ Has(inflightRequests, RequestKeyOf(r))
              /\ inflightRequests[RequestKeyOf(r)] = <<c, r.prov>>

\* C2: two calls of the orchestrator in immediate succession for the same
\* (trackId, kind, lang), without ignoreCache, issue at most one network call
\* in total, whatever the order of the cache reads, the settlement and the
\* background write-back.
C2_AtMostOneCall ==
    \A c1, c2 \in Callers :
        InSuccession(c1, c2) /\ Undisturbed(c1) /\ Undisturbed(c2) =>
            NetCalls(caller[c1]) + NetCalls(caller[c2]) <= 1

\* C3: an entry of _inflightRequests always belongs to a request that has not
\* settled: when a registered request settles, by success, by exhausting its
\* keys or by another error, its entry is gone.
C3_NoDanglingEntry ==
    \A k \in DOMAIN inflightRequests :
        LET p == inflightRequests[k]
        IN  /\ promise[p].state = "pending"
            /\ caller[p[1]].pc = "fetching" /\ caller[p[1]].prov = p[2]
            /\ RequestKeyOf(caller[p[1]]) = k

\* A registered request has exhausted its keys, and another has failed on
\* an error that does not rotate.
C3_Witness ==
    \E c, d \in Callers :
        /\ ~caller[c].ignoreCache /\ promise[<<c, "perplexity">>].state = "settled"
        /\ promise[<<c, "perplexity">>].result.message
              = <<"translator.failedPrefix", ":">> \o MsgRateLimit
        /\ ~caller[d].ignoreCache /\ promise[<<d, "gemini">>].state = "settled"
        /\ promise[<<d, "gemini">>].result.message = handleAPIError(500)

\* C4: without ignoreCache a provider call reads the cache before it looks at
\* the registry, and looks at the registry before any network call; when the
\* read yields an entry, the call returns that entry, makes no network call
\* and registers nothing.
C4_CacheFirst ==
    \A c \in Callers :
        LET r == caller[c]
        IN  ~r.ignoreCache =>
              /\ \A n \in DOMAIN r.log :
                    /\ r.log[n].ev = "net" =>
                          \E m \in 1..(n - 1) :
                              r.log[m].ev = "lookup" /\ r.log[m].prov = r.log[n].prov
                    /\ r.log[n].ev = "lookup" =>
                          \E m \in 1..(n - 1) :
                              r.log[m].ev = "cache" /\ r.log[m].prov = r.log[n].prov
              /\ \A prov \in Providers :
                    r.cached[prov] # NoOutcome =>
                        /\ r.returned[prov] = r.cached[prov]
                        /\ \A n \in DOMAIN r.log :
                              r.log[n].prov = prov => r.log[n].ev = "cache"
                        /\ promise[<<c, prov>>] = Unused
                        /\ <<c, prov>> \notin RegisteredPromises

\* A call has returned the entry it found in the cache.
C4_Witness ==
    \E c \in Callers, prov \in Providers :
        /\ ~caller[c].ignoreCache
        /\ caller[c].cached[prov] # NoOutcome
        /\ caller[c].pc = "done"
        /\ caller[c].outcome = caller[c].cached[prov]

ValidationErrors == {MsgNoText, MsgMissingApiKey, MsgNoTrack}

\* C5: a call with ignoreCache never reads the cache, never looks at the
\* registry, starts with a network call as soon as its arguments and key pool
\* are accepted, and is never registered, so that no caller is handed its
\* promise.
C5_ForcedRefresh ==
    \A c \in Callers :
        LET r == caller[c]
        IN  r.ignoreCache /\ r.pc # "idle" =>
              /\ EventsOf(r, "cache") = {} /\ EventsOf(r, "lookup") = {}
              /\ \A prov \in Providers :
                    r.cached[prov] = NoOutcome /\ r.joined[prov] = NoPromise
              /\ r.pc \in {"fetching", "done"}
              /\ r.log = <<>> => r.outcome.message \in ValidationErrors
              /\ PromisesOf(c) \cap RegisteredPromises = {}
              /\ \A d \in Callers, prov \in Providers : caller[d].joined[prov] \notin PromisesOf(c)

\* A forced refresh and an ordinary request for the same key are in flight
\* together, each with its own network call.
C5_Witness ==
    \E c, d \in Callers :
        /\ caller[c].ignoreCache /\ ~caller[d].ignoreCache
        /\ caller[c].pc = "fetching" /\ caller[d].pc = "fetching"
        /\ RequestKeyOf(caller[c]) = RequestKeyOf(caller[d])
        /\ EventsOf(caller[d], "lookup") # {}

\* The fetches a caller issued for a provider and what they got, in order.
Nets(r, prov) == SelectSeq(r.log, LAMBDA e : e.ev = "net" /\ e.prov = prov)
Rets(r, prov) == SelectSeq(r.log, LAMBDA e : e.ev = "ret" /\ e.prov = prov)
KeysOf(events) == [n \in DOMAIN events |-> events[n].key]

\* The failure classes of a provider response, by HTTP status.
RateLimited(e) == ~e.out.ok /\ e.status = 429
AuthInvalid(e) == ~e.out.ok /\ e.status \in {401, 403}
QuotaOrAuth(e) == RateLimited(e) \/ AuthInvalid(e)

\* C6: when the first k keys of the pool each get a rate-limit failure and
\* the next key succeeds, the call returns that key's success, and the
\* request was made exactly k+1 times, with the first k+1 keys in pool order.
C6_RotatesToSuccess ==
    \A c \in Callers, prov \in Providers :
        LET r == caller[c]
            pool == r.apiKeys[prov]
            nets == Nets(r, prov)
            rets == Rets(r, prov)
        IN  \A k \in 0..(Len(pool) - 1) :
                /\ Len(rets) > k
                /\ \A j \in 1..k : RateLimited(rets[j])
                /\ rets[k + 1].out.ok
                => /\ r.returned[prov] = rets[k + 1].out
                   /\ promise[<<c, prov>>] = Settled(rets[k + 1].out)
                   /\ Len(rets) = k + 1
                   /\ KeysOf(nets) = SubSeq(pool, 1, k + 1)
                   /\ KeysOf(rets) = SubSeq(pool, 1, k + 1)

\* The first key of a pool of two was rate-limited and the second succeeded.
C6_Witness ==
    \E c \in Callers, prov \in Providers :
        LET rets == Rets(caller[c], prov)
        IN  /\ Len(caller[c].apiKeys[prov]) = 2
            /\ Len(rets) = 2
            /\ RateLimited(rets[1])
            /\ rets[2].out.ok
            /\ caller[c].returned[prov].ok

\* C7: when the first key gets a failure that is neither a rate-limit nor an
\* auth failure, the request is made exactly once and the call rejects with
\* that very error.
C7_OtherErrorAborts ==
    \A c \in Callers, prov \in Providers :
        LET r == caller[c]
            nets == Nets(r, prov)
            rets == Rets(r, prov)
        IN  /\ Len(rets) >= 1
            /\ ~rets[1].out.ok
            /\ ~QuotaOrAuth(rets[1])
            => /\ Len(nets) = 1
               /\ r.returned[prov] = rets[1].out

SecondaryExhausted(r) ==
    LET rets == Rets(r, "perplexity")
    IN  /\ r.entry = "api"
        /\ Len(r.apiKeys["perplexity"]) >= 1
        /\ Len(rets) = Len(r.apiKeys["perplexity"])
        /\ \A j \in DOMAIN rets : QuotaOrAuth(rets[j])

\* C9: when callPerplexity has failed on all its keys with rate-limit or auth
\* failures and callTranslationAPI found a Gemini key stored, callGemini is
\* called; its success is what callTranslationAPI returns, and its failure is
\* reported together with Perplexity's.  With one key in each pool and a track
\* to translate, exactly one request goes to each provider.
C9_FallsBackToPrimary ==
    \A c \in Callers :
        LET r == caller[c]
        IN  SecondaryExhausted(r) /\ r.hasGeminiKey =>
              /\ r.prov = "gemini"
              /\ r.pc = "done" =>
                    /\ r.returned["gemini"] # NoOutcome
                    /\ r.returned["gemini"].ok => r.outcome = r.returned["gemini"]
                    /\ ~r.returned["gemini"].ok =>
                          /\ ~r.outcome.ok
                          /\ r.outcome.message =
                               <<"translator.failedPrefix", ":", "Perplexity", "(">>
                                 \o r.returned["perplexity"].message
                                 \o <<")", ",", "Gemini", "(">>
                                 \o r.returned["gemini"].message \o <<")">>
                    /\ /\ Len(r.apiKeys["perplexity"]) = 1
                       /\ Len(r.apiKeys["gemini"]) = 1
                       /\ r.finalTrackId # NoTrack
                       => Len(Nets(r, "perplexity")) = 1 /\ Len(Nets(r, "gemini")) = 1

\* Perplexity's only key was rate-limited and Gemini's only key succeeded.
C9_Witness ==
    \E c \in Callers :
        LET r == caller[c]
        IN  /\ SecondaryExhausted(r) /\ r.hasGeminiKey
            /\ RateLimited(Rets(r, "perplexity")[1])
            /\ Len(r.apiKeys["perplexity"]) = 1 /\ Len(r.apiKeys["gemini"]) = 1
            /\ r.pc = "done" /\ r.outcome.ok
            /\ r.outcome = r.returned["gemini"]

\* C10: when callPerplexity fails and none of its keys got a rate-limit or
\* auth failure, callTranslationAPI rejects with that error and callGemini is
\* not called, whether or not a Gemini key is stored.
C10_OtherErrorIsFinal ==
    \A c \in Callers :
        LET r == caller[c]
            rets == Rets(r, "perplexity")
        IN  /\ r.entry = "api"
            /\ r.returned["perplexity"] # NoOutcome
            /\ ~r.returned["perplexity"].ok
            /\ \A j \in DOMAIN rets : ~QuotaOrAuth(rets[j])
            => /\ r.prov = "perplexity"
               /\ r.pc = "done"
               /\ r.outcome = r.returned["perplexity"]

\* The text `part` occurs in the text `message`.
Contains(message, part) ==
    \E n \in 0..(Len(message) - Len(part)) :
        SubSeq(message, n + 1, n + Len(part)) = part

\* C11: when callPerplexity has failed on all its keys with rate-limit or auth
\* failures and the callGemini that follows fails too, callTranslationAPI
\* rejects with one error whose message holds both Perplexity's and Gemini's
\* error messages.
C11_BothReasonsReported ==
    \A c \in Callers :
        LET r == caller[c]
        IN  /\ SecondaryExhausted(r) /\ r.hasGeminiKey
            /\ r.returned["gemini"] # NoOutcome
            /\ ~r.returned["gemini"].ok
            => /\ r.pc = "done"
               /\ ~r.outcome.ok
               /\ r.outcome.name = "Error"
               /\ r.returned["perplexity"].message # <<>>
               /\ r.returned["gemini"].message # <<>>
               /\ Contains(r.outcome.message, r.returned["perplexity"].message)
               /\ Contains(r.outcome.message, r.returned["gemini"].message)
               /\ Contains(r.outcome.message, <<"Perplexity", "(">>)
               /\ Contains(r.outcome.message, <<"Gemini", "(">>)

\* Perplexity's pool was rate-limited and Gemini then timed out.
C11_Witness ==
    \E c \in Callers :
        LET r == caller[c]
        IN  /\ SecondaryExhausted(r) /\ r.hasGeminiKey
            /\ RateLimited(Rets(r, "perplexity")[1])
            /\ r.returned["gemini"].message = MsgTimeout
            /\ r.pc = "done"

\* C12: when callTranslationAPI finds no key stored for either provider, or
\* the provider it calls finds no usable key in its pool, it rejects with the
\* missing-API-key error and no request has been made.
C12_NoKeysNoCalls ==
    \A c \in Callers :
        LET r == caller[c]
        IN  r.entry = "api" /\ r.pc # "idle" =>
              /\ ~r.hasPerplexityKey /\ ~r.hasGeminiKey =>
                    /\ r.pc = "done"
                    /\ r.outcome = Err("Error", <<"translator.missingApiKey">>)
                    /\ r.log = <<>>
                    /\ \A prov \in Providers : promise[<<c, prov>>] = Unused
              /\ /\ r.text
                 /\ r.apiKeys["perplexity"] = <<>>
                 /\ r.apiKeys["gemini"] = <<>>
                 => /\ r.pc = "done"
                    /\ r.outcome = Err("Error", <<"translator.missingApiKey">>)
                    /\ NetCalls(r) = 0

\* A call with text and a track found no key stored for either provider.
C12_Witness ==
    \E c \in Callers :
        LET r == caller[c]
        IN  /\ r.entry = "api" /\ r.pc = "done"
            /\ r.text /\ r.trackId # NoTrack
            /\ ~r.hasPerplexityKey /\ ~r.hasGeminiKey
            /\ r.outcome.message = <<"translator.missingApiKey">>

\* C13: a caller whose own request got a successful response has that
\* response as its result, and keeps it whatever becomes of the background
\* LyricsCache.setTranslation it started.
C13_WriteFailureSwallowed ==
    \A c \in Callers, prov \in Providers :
        LET r == caller[c]
            rets == Rets(r, prov)
        IN  Len(rets) >= 1 /\ rets[Len(rets)].out.ok =>
              /\ r.returned[prov] = rets[Len(rets)].out
              /\ promise[<<c, prov>>] = Settled(rets[Len(rets)].out)
              /\ r.pc = "done"
              /\ r.outcome = rets[Len(rets)].out

\* A caller has its successful response although the write-back of that
\* response failed: no write is pending and the cache holds nothing for it.
C13_Witness ==
    \E c \in Callers :
        LET r == caller[c]
            rets == Rets(r, r.prov)
        IN  /\ r.pc = "done" /\ r.outcome.ok
            /\ Len(rets) >= 1 /\ rets[Len(rets)].out = r.outcome
            /\ pendingWrites = {}
            /\ ~Has(cache, CacheKeyOf(r))

\* C14: the cleaned output of a response text has as many entries as the
\* text has lines, and every empty line of the text is an empty entry at the
\* same index, at the start and the end of the text too.
C14_LineAlignment ==
    sanitizer.pc = "done" /\ sanitizer.out.ok =>
        /\ Len(sanitizer.out.value) = Len(sanitizer.content)
        /\ \A n \in DOMAIN sanitizer.content :
              IsBlankLine(sanitizer.content[n]) =>
                  n \in DOMAIN sanitizer.out.value /\ sanitizer.out.value[n] = <<>>

\* The lines of a text after their own trim.
TrimmedLines(lines) == {trimLine(lines[n]) : n \in DOMAIN lines}

\* A line of one word: one phrase without a blank in it.
IsOneWord(line) ==
    /\ Len(line) = 1
    /\ line[1] \notin {" ", "-", "[1]"}
    /\ InnerBlanks(line[1]) = 0

\* The patterns of unwantedPatterns a line matches.
UnwantedMatches(line) ==
    {line[n] : n \in DOMAIN line} \cap {"instead", "limitations", "more importantly"}

\* C15: the line filter of the second callPerplexity leaves every one-word
\* line in the output, whether or not the word holds one of the refusal or
\* explanation keywords; a line goes only for two matches and its length.
C15_ShortLinePreserved ==
    /\ sanitizer.pc = "done"
    /\ sanitizer.definition = "second"
    /\ sanitizer.out.ok
    => \A n \in DOMAIN sanitizer.content :
          LET line == trimLine(sanitizer.content[n])
              kept == line \in TrimmedLines(sanitizer.out.value)
          IN  /\ IsOneWord(line) => kept
              /\ unwantedPatterns(line) /\ ~kept =>
                    Cardinality(UnwantedMatches(line)) >= 2 /\ ~IsOneWord(line)

\* A sentence of refusal: a line longer than every length the filter looks
\* at that holds a word of the refusal and explanation lists.
IsRefusalSentence(line) ==
    /\ LineLength(trimLine(line)) > 100
    /\ \/ unwantedPatterns(line)
       \/ \E n \in DOMAIN line :
             explanationKeywords(line[n]) \cup explanationIndicators(line[n]) # {}

\* C16: a response text of two or more lines, each a sentence of refusal,
\* is rejected with the invalid-response error by either definition's
\* cleaning; no list of lines comes back.
C16_RefusalRejected ==
    /\ sanitizer.pc = "done"
    /\ Len(sanitizer.content) >= 2
    /\ \A n \in DOMAIN sanitizer.content : IsRefusalSentence(sanitizer.content[n])
    => ~sanitizer.out.ok /\ sanitizer.out.message = MsgExplanation

\* The pool of the provider an event belongs to, and the place of the
\* event's key in it.
KeyPlace(r, e) ==
    CHOOSE j \in DOMAIN r.apiKeys[e.prov] : r.apiKeys[e.prov][j] = e.key

\* C17: when the cleaning rejects the response a key got as an invalid
\* response, the error counts as one that rotation and fallback act on, and
\* unless the key was the last of the pool the next key is tried.
C17_RejectionRotates ==
    \A c \in Callers :
        LET r == caller[c]
        IN  \A n \in DOMAIN r.log :
                /\ r.log[n].ev = "ret"
                /\ r.log[n].out.message = MsgExplanation
                => /\ shouldRotate(r.log[n].out.message)
                   /\ shouldFallback(r.log[n].out.message)
                   /\ KeyPlace(r, r.log[n]) < Len(r.apiKeys[r.log[n].prov]) =>
                         /\ n < Len(r.log)
                         /\ r.log[n + 1].ev = "net"
                         /\ r.log[n + 1].key =
                               keyAt(r.apiKeys[r.log[n].prov], KeyPlace(r, r.log[n]) + 1)

\* The time by which syllable i of a payload line starts after syllable
\* i - 1, in milliseconds: the payload has offsets only, so a gap put in
\* ahead of syllable i shows as this distance.
StartDistance(line, i) == syllableStartTime(line, i) - syllableStartTime(line, i - 1)

\* The line has a gap of 600 ms or more ahead of syllable i and no distance
\* above the threshold of 500 ms anywhere else.
GapInsertedAt(line, i) ==
    /\ i \in 2..Len(line.l)
    /\ StartDistance(line, i) >= 600
    /\ \A j \in 2..Len(line.l) : j # i => StartDistance(line, j) <= 500

TextsOf(syllables) == [n \in DOMAIN syllables |-> syllables[n].text]

\* C18: a word-by-word line with a gap of 600 ms put in ahead of syllable i
\* comes out of getKaraoke with vocals: the lead holds the syllables before
\* i and the first background group starts with syllable i.
C18_SplitAtGap ==
    karaoke.pc = "done" /\ ~karaoke.out.null =>
        \A n \in DOMAIN karaoke.body.lyrics :
            LET line == karaoke.body.lyrics[n]
                out == karaoke.out.lines[n]
            IN  \A i \in 2..Len(line.l) :
                    GapInsertedAt(line, i) =>
                        /\ out.keys = {"vocals"}
                        /\ Len(out.background) >= 1
                        /\ TextsOf(out.lead.syllables) = [k \in 1..(i - 1) |-> k]
                        /\ out.background[1].syllables[1].text = i

\* C19: every line getKaraoke returns has exactly one of `syllables` and
\* `vocals`; a line with syllables and no distance of 500 ms or more between
\* them comes out as one flat list of all its syllables, and a line with
\* vocals has a lead and at least one background group.
C19_SyllablesOrVocals ==
    karaoke.pc = "done" /\ ~karaoke.out.null =>
        \A n \in DOMAIN karaoke.body.lyrics :
            LET line == karaoke.body.lyrics[n]
                out == karaoke.out.lines[n]
            IN  /\ out.keys \in {{"syllables"}, {"vocals"}}
                /\ /\ line.l # <<>>
                   /\ \A i \in 2..Len(line.l) : StartDistance(line, i) < 500
                   => /\ out.keys = {"syllables"}
                      /\ TextsOf(out.syllables) = [k \in 1..Len(line.l) |-> k]
                /\ out.keys = {"vocals"} =>
                      /\ out.syllables = <<>>
                      /\ out.lead.syllables # <<>>
                      /\ Len(out.background) >= 1

\* A line of three syllables, none 500 ms after the one before, has come
\* out with its syllables as a flat list.
C19_Witness ==
    /\ karaoke.pc = "done" /\ ~karaoke.out.null
    /\ \E n \in DOMAIN karaoke.body.lyrics :
          LET line == karaoke.body.lyrics[n]
          IN  /\ Len(line.l) = 3
              /\ \A i \in 2..3 : StartDistance(line, i) < 500
              /\ karaoke.out.lines[n].keys = {"syllables"}
              /\ Len(karaoke.out.lines[n].syllables) = 3

\* What a caller's request is for, once its provider has been entered.
RequestOf(r) == <<r.finalTrackId, r.wantSmartPhonetic, r.userLang, r.prov>>

\* C20: two requests with the same request key are for the same track, kind,
\* language and provider, and a caller is handed the promise of a request in
\* flight only if that request went to the provider it is calling, for its
\* track, kind and language.
C20_KeyInjective ==
    \A c \in Callers, d \in Callers :
        LET r == caller[c]
            q == caller[d]
        IN  /\ /\ r.pc \in {"cacheRead", "fetching", "joined"}
               /\ q.pc \in {"cacheRead", "fetching", "joined"}
               /\ RequestKeyOf(r) = RequestKeyOf(q)
               => RequestOf(r) = RequestOf(q)
            /\ \A prov \in Providers :
                  r.joined[prov] # NoPromise /\ r.joined[prov][1] = d =>
                      /\ r.joined[prov][2] = prov
                      /\ q.finalTrackId = r.finalTrackId
                      /\ q.wantSmartPhonetic = r.wantSmartPhonetic
                      /\ q.userLang = r.userLang

\* The syllables of an output line, group after group.
RECURSIVE Flatten(_)
Flatten(groups) ==
    IF groups = <<>> THEN <<>> ELSE Head(groups).syllables \o Flatten(Tail(groups))
AllSyllables(out) ==
    IF out.keys = {"syllables"} THEN out.syllables
    ELSE out.lead.syllables \o Flatten(out.background)

\* C29: for a word-by-word line with syllables, the k-th output syllable is
\* the k-th input syllable; it starts at the line's start plus its offset,
\* rounded to a millisecond, ends where the next one starts, and the last
\* one ends at the line's end time.
C29_SyllableTimes ==
    karaoke.pc = "done" /\ ~karaoke.out.null =>
        \A n \in DOMAIN karaoke.body.lyrics :
            LET line == karaoke.body.lyrics[n]
                syllables == AllSyllables(karaoke.out.lines[n])
            IN  line.l # <<>> =>
                  /\ Len(syllables) = Len(line.l)
                  /\ \A k \in DOMAIN line.l :
                        /\ syllables[k].text = line.l[k].c
                        /\ syllables[k].startTime = (line.ts + line.l[k].o + 1) \div 2
                        /\ k < Len(line.l) => syllables[k].endTime = syllables[k + 1].startTime
                        /\ k = Len(line.l) => syllables[k].endTime = karaoke.out.lines[n].endTime
                  /\ karaoke.out.lines[n].endTime = (line.te + 1) \div 2

\* A line of three syllables that starts on a half millisecond has come out
\* with three timed syllables.
C29_Witness ==
    /\ karaoke.pc = "done" /\ ~karaoke.out.null
    /\ \E n \in DOMAIN karaoke.body.lyrics :
          /\ Len(karaoke.body.lyrics[n].l) = 3
          /\ karaoke.body.lyrics[n].ts = 2001
          /\ Len(AllSyllables(karaoke.out.lines[n])) = 3
          /\ AllSyllables(karaoke.out.lines[n])[3].endTime = 3001

\* C30: a word-by-word line without syllables comes out with exactly one
\* syllable, which has the line's text and the line's start and end times.
C30_SyntheticSyllable ==
    karaoke.pc = "done" /\ ~karaoke.out.null =>
        \A n \in DOMAIN karaoke.body.lyrics :
            LET line == karaoke.body.lyrics[n]
                out == karaoke.out.lines[n]
            IN  line.l = <<>> =>
                  /\ out.keys = {"syllables"}
                  /\ out.syllables =
                        <<[text |-> line.x, startTime |-> out.startTime, endTime |-> out.endTime]>>
                  /\ out.startTime = (line.ts + 1) \div 2
                  /\ out.endTime = (line.te + 1) \div 2

\* A line without syllables has come out with its one synthetic syllable.
C30_Witness ==
    /\ karaoke.pc = "done" /\ ~karaoke.out.null
    /\ \E n \in DOMAIN karaoke.body.lyrics :
          /\ karaoke.body.lyrics[n].l = <<>>
          /\ Len(karaoke.out.lines[n].syllables) = 1
          /\ karaoke.out.lines[n].syllables[1].text = "x"

\* A line of letters, kana and Han characters only.
IsPlainLine(line) == line # <<>> /\ \A n \in DOMAIN line : line[n] \in {"L", "K", "H"}

\* C28: in the first callPerplexity's cleaning, a line of a translation is
\* dropped (made empty) exactly when more than half of its characters are
\* CJK characters, and a line of a phonetic output is never dropped.
C28_DroppedAboveHalf ==
    /\ sanitizer.pc = "done"
    /\ sanitizer.definition = "first"
    /\ \A n \in DOMAIN sanitizer.content : IsPlainLine(sanitizer.content[n])
    => /\ Len(sanitizer.out.value) = Len(sanitizer.content)
       /\ \A n \in DOMAIN sanitizer.content :
             LET line == sanitizer.content[n]
                 dropped == sanitizer.out.value[n] = <<>>
             IN  /\ sanitizer.wantSmartPhonetic => ~dropped
                 /\ ~sanitizer.wantSmartPhonetic =>
                       (dropped <=> 2 * CountOf(line, {"K", "H"}) > Len(line))
                 /\ ~dropped => sanitizer.out.value[n] = line

\* C24: clearInflightRequests(trackId) removes from _inflightRequests and from
\* _pendingRetries exactly the entries whose key starts with `trackId:`; the
\* entries of other tracks keep their promise, and with an empty trackId
\* nothing changes.
KeptBy(requests, after, trackId) ==
    /\ DOMAIN after =
          {k \in DOMAIN requests :
              trackId = NoTrack \/ ~StartsWith(k, trackId \o <<":">>)}
    /\ \A k \in DOMAIN after : after[k] = requests[k]

C24_ClearsOnlyTrack ==
    [][\A t \in Tracks \cup {NoTrack} :
          clearInflightRequests(t) =>
              /\ KeptBy(inflightRequests, inflightRequests', t)
              /\ KeptBy(pendingRetries, pendingRetries', t)]_vars

\* The request for track "a" is still being fetched and its entry is gone,
\* while the entry of the other track's request is still registered.
C24_Witness ==
    /\ caller["c1"].pc = "fetching" /\ ~caller["c1"].ignoreCache
    /\ caller["c1"].finalTrackId = <<"a">>
    /\ ~Has(inflightRequests, RequestKeyOf(caller["c1"]))
    /\ caller["c2"].pc = "fetching" /\ ~caller["c2"].ignoreCache
    /\ caller["c2"].finalTrackId = <<"a", "b">>
    /\ Has(inflightRequests, RequestKeyOf(caller["c2"]))
    /\ inflightRequests[RequestKeyOf(caller["c2"])] = <<"c2", caller["c2"].prov>>

\* C25: once clearInflightRequests has removed the entry of a request that is
\* still being fetched, a new request for the same key that does not ignore
\* the cache is not handed the promise of the old one: it issues its own
\* fetch.  The clearing leaves the old call alone, and when its fetch returns
\* its caller gets the outcome of its own promise.
LooksUp(c) ==
    /\ ~caller'[c].ignoreCache
    /\ Len(caller'[c].log) > Len(caller[c].log)
    /\ \E n \in (Len(caller[c].log) + 1)..Len(caller'[c].log) :
          caller'[c].log[n].ev = "lookup"

ClearedInFlight(d) ==
    /\ caller[d].pc = "fetching" /\ ~caller[d].ignoreCache
    /\ promise[<<d, caller[d].prov>>] = Pending
    /\ ~Has(inflightRequests, RequestKeyOf(caller[d]))

C25_OwnAttemptAfterClear ==
    [][/\ \A c \in Callers, d \in Callers :
             c # d /\ ClearedInFlight(d) /\ LooksUp(c)
                   /\ RequestKeyOf(caller'[c]) = RequestKeyOf(caller[d])
             => /\ caller'[c].pc = "fetching"
                /\ caller'[c].joined[caller'[c].prov] = NoPromise
                /\ caller'[c].log[Len(caller'[c].log)].ev = "net"
                /\ promise'[<<c, caller'[c].prov>>] = Pending
                /\ caller'[d] = caller[d]
                /\ promise'[<<d, caller[d].prov>>] = Pending
       /\ \A t \in Tracks \cup {NoTrack} :
             clearInflightRequests(t) => UNCHANGED <<caller, promise>>
       /\ \A d \in Callers :
             ClearedInFlight(d) /\ caller'[d].pc = "done"
             => /\ promise'[<<d, caller[d].prov>>].state = "settled"
                /\ caller'[d].returned[caller[d].prov]
                      = promise'[<<d, caller[d].prov>>].result]_vars

\* Two requests for one key are being fetched at once, neither ignoring the
\* cache and neither joined to the other: the older one lost its entry.
C25_Witness ==
    /\ \A c \in Callers :
          /\ caller[c].pc = "fetching" /\ ~caller[c].ignoreCache
          /\ \A p \in Providers : caller[c].joined[p] = NoPromise
          /\ promise[<<c, caller[c].prov>>] = Pending
    /\ RequestKeyOf(caller["c1"]) = RequestKeyOf(caller["c2"])
    /\ caller["c1"].prov = caller["c2"].prov
    /\ inflightRequests[RequestKeyOf(caller["c2"])] = <<"c2", caller["c2"].prov>>

\* C27: a translateMetadata call that may use the caches answers from the
\* memory cache when it holds the key, and reads the persistent store only
\* after a memory miss; a persistent hit is put in the memory cache before
\* the call returns it, so getMetadataFromCache for the same track and
\* language then gives that entry, and the call has made no request.
C27_ReadThrough ==
    [][\A m \in MetadataCallers :
          LET r == metadataCall[m]
              rNew == metadataCall'[m]
          IN  /\ r.pc = "idle" /\ rNew.pc # "idle" /\ rNew.source # "invalid"
                   /\ ~rNew.ignoreCache
                 => IF Has(metadataCache, MetadataKeyOf(rNew))
                    THEN /\ rNew.pc = "done" /\ rNew.fetches = 0
                         /\ rNew.out = metadataCache[MetadataKeyOf(rNew)]
                    ELSE rNew.pc = "cacheRead"
              /\ r.pc = "cacheRead" /\ Has(metadataStore, MetadataKeyOf(r))
                   /\ MetadataCacheReadReturn(m, FALSE)
                 => /\ rNew.pc = "done" /\ rNew.fetches = 0
                    /\ rNew.out = metadataStore[MetadataKeyOf(r)]
                    /\ getMetadataFromCache(metadataCache', r.finalTrackId, r.userLang)
                          = rNew.out
                    /\ UNCHANGED <<metadataInflightRequests, metadataWrites>>]_vars

\* One call was answered by the persistent store and the next one for the
\* same track and language by the memory cache, neither with a request.
C27_Witness ==
    /\ metadataCall["m1"].pc = "done" /\ metadataCall["m1"].source = "store"
    /\ metadataCall["m1"].out = EntryStored /\ metadataCall["m1"].fetches = 0
    /\ metadataCall["m2"].pc = "done" /\ metadataCall["m2"].source = "memory"
    /\ metadataCall["m2"].out = EntryStored /\ metadataCall["m2"].fetches = 0
    /\ MetadataKeyOf(metadataCall["m1"]) = MetadataKeyOf(metadataCall["m2"])
    /\ getMetadataFromCache(metadataCache, metadataCall["m1"].finalTrackId,
                            metadataCall["m1"].userLang) = EntryStored

\* C26: when the helper of the Translator's initial language timed out while
\* loading, a conversion call for another language whose own library loads
\* (or that needs none) succeeds.
InitialLanguageTimedOut ==
    /\ initializationPromise.state = "rejected"
    /\ initializationPromise.error.message = MsgGlobalsTimeout(conversion["init"].lang)

C26_TimeoutStaysLocal ==
    \A p \in ConversionCalls :
        /\ InitialLanguageTimedOut
        /\ conversion[p].pc = "done"
        /\ conversion[p].lang # conversion["init"].lang
        /\ NeedsLibrary(conversion[p].lang) => library[conversion[p].lang] = "loads"
        => conversion[p].out = Converted(conversion[p].lang)

\* C23: a 202 response whose body says translation_in_progress does not end
\* the request: the status polling takes over, and the in-progress body is
\* neither what the caller is returned nor what is written to the cache.
AnsweredInProgress(e) == e.ev = "ret" /\ e.status = 202

C23_InProgressNotFinal ==
    /\ \A c \in Callers :
          /\ caller[c].outcome # Ok(InProgressData)
          /\ \A n \in DOMAIN caller[c].log :
                AnsweredInProgress(caller[c].log[n]) =>
                   /\ ~caller[c].log[n].out.ok
                   /\ Has(pendingRetries, RequestKeyOf(caller[c])) \/ caller[c].pc = "done"
    /\ \A w \in pendingWrites : w.value # InProgressData
    /\ \A k \in DOMAIN cache : cache[k] # InProgressData

\* C22: a 2xx response whose body carries an error with rate-limit, quota or
\* forbidden keywords counts as that failure: the next key of the pool is
\* tried, and nothing of it is returned as a success or written to the cache.
CarriesErrorKeywords(res) ==
    /\ res.throw = "" /\ IsOk(res) /\ res.body.parse
    /\ isRateLimitError(res.body.message) \/ isForbiddenError(res.body.message)

C22_ErrorBodyIsFailure ==
    [][\A res \in GeminiResponses :
          /\ CarriesErrorKeywords(res)
          /\ caller["c1"].prov = "gemini"
          /\ FetchReturn("c1", res, OneInputs)
          => /\ pendingWrites' = pendingWrites
             /\ caller'["c1"].pc = "done" => ~caller'["c1"].outcome.ok
             /\ caller["c1"].i < Len(caller["c1"].apiKeys["gemini"])
                  => /\ caller'["c1"].pc = "fetching"
                     /\ caller'["c1"].i = caller["c1"].i + 1]_vars

\* C21: a response with a non-2xx status is classified by the status alone:
\* after 429, 401 or 403 the rotation goes on to the next key of the pool,
\* after any other status no further request is made.
C21_StatusDecidesRotation ==
    \A c \in Callers :
        LET r == caller[c]
        IN  \A n \in DOMAIN r.log :
                /\ r.log[n].ev = "ret"
                /\ r.log[n].status # 0 /\ ~(r.log[n].status \in 200..299)
                => IF r.log[n].status \in {429, 401, 403}
                   THEN KeyPlace(r, r.log[n]) < Len(r.apiKeys[r.log[n].prov]) =>
                           /\ n < Len(r.log)
                           /\ r.log[n + 1].ev = "net"
                           /\ r.log[n + 1].key =
                                 keyAt(r.apiKeys[r.log[n].prov], KeyPlace(r, r.log[n]) + 1)
                   ELSE n = Len(r.log)

\* A successful return of executeRequest is where a write for cache key
\* `key` with value `value` comes from.
HasSuccessFor(key, value) ==
    \E c \in Callers : \E n \in DOMAIN caller[c].log :
        /\ caller[c].log[n].ev = "ret"
        /\ caller[c].log[n].out.ok
        /\ caller[c].log[n].out.value = value
        /\ CacheKeyOf(caller[c]) = key

\* A call whose every request failed: on a key, by a time-out, by using up
\* its keys or by the cleaning's rejection.
OnlyFailures(r) ==
    /\ r.pc = "done" /\ ~r.outcome.ok
    /\ \A n \in DOMAIN r.log : r.log[n].ev = "ret" => ~r.log[n].out.ok

\* C31: the translation cache is written only after a successful provider
\* response: every pending write and every cache entry holds the value a
\* successful executeRequest returned for that cache key, and while no
\* request has succeeded nothing is written.
C31_WriteOnlyOnSuccess ==
    /\ \A w \in pendingWrites : HasSuccessFor(w.key, w.value)
    /\ \A k \in DOMAIN cache : HasSuccessFor(k, cache[k])
    /\ (\A c \in Callers : caller[c].pc = "idle" \/ OnlyFailures(caller[c])) =>
          pendingWrites = {} /\ cache = EmptyMap

\* A call went through a rate-limited key and was then rejected by the
\* cleaning; no write is pending and the cache is empty.
C31_Witness ==
    \E c \in Callers :
        LET rets == Rets(caller[c], "perplexity")
        IN  /\ OnlyFailures(caller[c])
            /\ Len(rets) = 2
            /\ rets[1].status = 429
            /\ rets[2].out.message = MsgExplanation
            /\ pendingWrites = {} /\ cache = EmptyMap

\* The reply is a rate-limit or forbidden failure of the key: status 429 or
\* 403, or a 2xx body whose error text names one of them.
QuotaOrForbiddenReply(res) ==
    /\ ~res.throw
    /\ \/ res.status \in {429, 403}
       \/ IsOk(res) /\ (isRateLimitError(res.error) \/ isForbiddenError(res.error))

\* C32: in translateMetadata the rotation goes on to the next key of the pool
\* only after a rate-limit or forbidden failure of the key just tried; after
\* any other outcome of a key, another error or a response without data, the
\* call returns and no further key is tried.
C32_RotatesOnlyOnQuotaOrForbidden ==
    \A m \in MetadataCallers :
        LET r == metadataCall[m]
        IN  \A n \in DOMAIN r.log :
                IF QuotaOrForbiddenReply(r.log[n].res)
                THEN n < Len(r.apiKeys) => r.i > n
                ELSE r.i = n /\ r.pc = "done"

MetadataEntries == {EntryStored, EntryFetched}

\* The request of the call failed: its last key got an error, or an answer
\* without data.
MetadataFailed(r) ==
    /\ r.source = "net" /\ r.log # <<>>
    /\ LET last == r.log[Len(r.log)].out
       IN  ~last.ok \/ last.value = NullResult

\* C38: translateMetadata never rejects: every call that has returned has
\* resolved to an entry or to null, and to null after every failure of its
\* request; neither the memory cache nor the persistent store, nor a write
\* on its way there, holds null or a failure; and once a request has
\* settled the in-flight registry holds no entry of it.
C38_MetadataNeverRejects ==
    /\ \A m \in MetadataCallers :
          LET r == metadataCall[m]
          IN  r.pc = "done" =>
                /\ r.out \in MetadataEntries \cup {NullResult}
                /\ MetadataFailed(r) => r.out = NullResult
                /\ r.source = "net" =>
                      ~(/\ Has(metadataInflightRequests, MetadataKeyOf(r))
                        /\ metadataInflightRequests[MetadataKeyOf(r)] = m)
    /\ \A k \in DOMAIN metadataCache : metadataCache[k] \in MetadataEntries
    /\ \A k \in DOMAIN metadataStore : metadataStore[k] \in MetadataEntries
    /\ \A w \in metadataWrites : w.value \in MetadataEntries

\* One call used up its two keys on rate limits and another was handed its
\* promise; both resolved to null, nothing was cached and the registry is
\* empty again.
C38_Witness ==
    \E m, j \in MetadataCallers :
        LET r == metadataCall[m]
        IN  /\ r.pc = "done" /\ r.source = "net" /\ r.out = NullResult
            /\ Len(r.log) = 2 /\ Len(r.apiKeys) = 2
            /\ \A n \in DOMAIN r.log : r.log[n].res.status = 429
            /\ metadataCall[j].pc = "done" /\ metadataCall[j].source = "joined"
            /\ metadataCall[j].joined = m /\ metadataCall[j].out = NullResult
            /\ metadataCache = EmptyMap /\ metadataWrites = {}
            /\ metadataInflightRequests = EmptyMap

\* The call's fetch got a status-200 response without an error field while
\* the requested track was the current one, and that response is `value`.
FetchedForCurrentTrack(r, trackId, value) ==
    /\ r.trackId = trackId /\ r.fetched
    /\ ~r.res.throw /\ r.res.status = 200 /\ r.res.parse /\ ~r.res.error
    /\ r.res.lyrics = value
    /\ r.seenBefore \in {NoTrack, trackId}
    /\ r.seenAfter \in {NoTrack, trackId}

\* One of the two checks found another track to be the current one.
SawTrackChange(r) ==
    \/ r.seenBefore \notin {NoTrack, r.trackId}
    \/ r.seenAfter \notin {NoTrack, r.trackId}

\* The response the fetch got is an error: another status than 200, or a
\* body with an error field.
IsErrorReply(r) ==
    /\ r.fetched /\ ~r.res.throw
    /\ r.res.status # 200 \/ (r.res.parse /\ r.res.error)

CarriesLines(value, wantSmartPhonetic) ==
    IF wantSmartPhonetic THEN value.phonetic # Undefined
    ELSE value.translation # Undefined

\* C35: every value a translation call returns, and every value written to
\* the translation cache, carries the line array of its request (phonetic
\* lines for a phonetic request, translation lines for a translation
\* request), whatever body came with the 2xx status.
C35_ResultCarriesLineArray ==
    /\ \A c \in Callers :
          caller[c].pc = "done" /\ caller[c].outcome.ok =>
             CarriesLines(caller[c].outcome.value, caller[c].wantSmartPhonetic)
    /\ \A w \in pendingWrites : CarriesLines(w.value, w.key[3])
    /\ \A k \in DOMAIN cache : CarriesLines(cache[k], k[3])

\* The step takes the registry entry of `requestKey` away, or hands the key
\* to another request.
EntryRemoved(requestKey) ==
    /\ Has(inflightRequests, requestKey)
    /\ \/ ~Has(inflightRequests', requestKey)
       \/ inflightRequests'[requestKey] # inflightRequests[requestKey]

\* C36: a registry entry is removed only when the request that registered
\* it settles or the registry is cleared; the settlement of any other
\* request (one made with ignoreCache, or a stale one whose entry was
\* cleared and registered anew) leaves the entry in place.
C36_RemovedOnlyByOwnerOrClear ==
    [][\A requestKey \in DOMAIN inflightRequests :
          EntryRemoved(requestKey) =>
             \/ /\ promise[inflightRequests[requestKey]].state = "pending"
                /\ promise'[inflightRequests[requestKey]].state = "settled"
             \/ \E t \in Tracks : clearInflightRequests(t)
             \/ clearAllInflightRequests]_vars

\* A stored key item that is not blank and still holds no usable key: an
\* empty JSON array, or an array of blank entries.
NonBlankWithoutKeys(raw) ==
    cachedKeyValue(raw) # RawNull /\ parseApiKeys(raw) = <<>>

\* C39: when the stored Perplexity key is not blank but holds no usable key
\* while a Gemini key is stored, callTranslationAPI still goes to Gemini for
\* the translation.
C39_UnusablePerplexityKeyFallsBack ==
    [][\A args \in OneArguments, rawPerplexity \in FlagRawValues,
          rawGemini \in FlagRawValues, inp \in OneInputs :
          /\ ~apiKeyCache.fresh /\ args.text
          /\ NonBlankWithoutKeys(rawPerplexity) /\ NonBlankWithoutKeys(inp.raw)
          /\ cachedKeyValue(rawGemini) # RawNull /\ parseApiKeys(rawGemini) # <<>>
          /\ CallTranslationAPI("c1", args, rawPerplexity, rawGemini, inp)
          => caller'["c1"].prov = "gemini"]_vars

\* C40: whatever the interleaving of the conversion calls on one Translator,
\* romajifyText does not call kuroshiro.convert before kuroshiro.init has
\* finished: a Japanese conversion that got its text from the converter
\* finds finished.ja set.
C40_ConvertsAfterInit ==
    \A p \in ConversionCalls :
        /\ conversion[p].pc = "done" /\ conversion[p].lang = "ja"
        /\ conversion[p].out = Converted("ja")
        => finished["ja"]

\* ------------------------------------- the second callGemini, two callers
\* Two concurrent callers of the second callGemini with a pool of ConcKeys
\* keys, and one reply of each class: lines, in progress, rate limit, server
\* error, time-out.
PairArguments ==
    [trackId : {<<"a">>}, text : {TRUE}, wantSmartPhonetic : {FALSE}, ignoreCache : BOOLEAN]
PairReplies ==
    { Response("", 200, GeminiData(TRUE, "", NoMessage, NoMessage, LinesT, LinesP)),
      Response("", 202, InProgressData),
      Response("", 429, EmptyGeminiData),
      Response("", 500, GeminiData(FALSE, "", NoMessage, <<"gateway down">>, Undefined, Undefined)),
      Response("AbortError", 0, EmptyGeminiData) }

NextGeminiPair ==
    \/ \E c \in Callers, args \in PairArguments, inp \in ConcInputs :
          CallGeminiSecond(c, args, inp)
    \/ \E c \in Callers, readFails \in BOOLEAN : CacheReadReturn(c, readFails)
    \/ \E c \in Callers, reply \in PairReplies : FetchReturnGeminiSecond(c, reply)
    \/ \E c \in Callers : AwaitReturn(c, ConcInputs)
    \/ \E w \in pendingWrites, stored \in BOOLEAN : WriteSettles(w, stored)
    \/ \E t \in Tracks : clearInflightRequests(t)

\* Every cache read and every network call returns, and the continuation of
\* a settled promise runs; nothing obliges a call, a write or a clear.
FairGeminiPair ==
    \A c \in Callers :
        /\ WF_vars(\E readFails \in BOOLEAN : CacheReadReturn(c, readFails))
        /\ WF_vars(\E reply \in PairReplies : FetchReturnGeminiSecond(c, reply))
        /\ WF_vars(AwaitReturn(c, ConcInputs))

SpecGeminiPairFair == Init /\ [][NextGeminiPair]_vars /\ FairGeminiPair

====
